---- MODULE Spec2Model ----
(***************************************************************************)
(* A model of pake's rule engine: the path normalizer, the rule hierarchy, *)
(* the registry, the recursive update driver (rules.py, Rule.update) and   *)
(* the locked, atomically replaced state file (registry.py, State).        *)
(*                                                                         *)
(* A target string is modelled as the sequence of its "/"-separated        *)
(* segments: "a" is <<"a">>, "./f" is <<".", "f">>, "d/../f" is            *)
(* <<"d", "..", "f">>, "" is <<>>.  Two strings are equal exactly when     *)
(* their segment sequences are equal.                                      *)
(***************************************************************************)
EXTENDS Integers, Sequences, FiniteSets, TLC

(***************************************************************************)
(* Paths and hashing                                                       *)
(***************************************************************************)

\* The segment that stands for a string holding a NUL byte.
NUL == "\\0"

\* os.path.relpath's lexical normalisation of a relative path: "." segments
\* are dropped, "seg/.." pairs collapse, leading ".." segments are kept.
RECURSIVE NormSegs(_, _)
NormSegs(segs, acc) ==
    IF segs = <<>> THEN acc
    ELSE LET s == Head(segs) IN
         IF s = "." THEN NormSegs(Tail(segs), acc)
         ELSE IF s = ".." /\ acc # <<>> /\ acc[Len(acc)] # ".."
              THEN NormSegs(Tail(segs), SubSeq(acc, 1, Len(acc) - 1))
              ELSE NormSegs(Tail(segs), Append(acc, s))

relpath(filepath) ==
    LET n == NormSegs(filepath, <<>>) IN IF n = <<>> THEN <<".">> ELSE n

\* normalize_path: [ok |-> TRUE, path |-> "./<relpath>"] or the ValueError.
normalize_path(filepath) ==
    IF filepath = <<>> THEN [ok |-> FALSE, path |-> filepath]
    ELSE IF \E i \in 1..Len(filepath) : filepath[i] = NUL
         THEN [ok |-> FALSE, path |-> filepath]
    ELSE LET path == relpath(filepath) IN
         IF path[1] = ".." THEN [ok |-> FALSE, path |-> filepath]
         ELSE [ok |-> TRUE, path |-> <<".">> \o path]

(***************************************************************************)
(* Results.  Every result is a record [tag, val, n] so that any two can be *)
(* compared: a string, a file digest, a nonce, None, a tuple and a list.   *)
(***************************************************************************)

Str(v)   == [tag |-> "str", val |-> v, n |-> 0]
Sha(c)   == [tag |-> "sha256", val |-> c, n |-> 0]
Nonce(n) == [tag |-> "unique", val |-> "", n |-> n]
None     == [tag |-> "none", val |-> "", n |-> 0]
Tuple(v) == [tag |-> "tuple", val |-> v, n |-> 0]
List(v)  == [tag |-> "list", val |-> v, n |-> 0]
\* A dict result: val maps each key to a result.
Dict(m)  == [tag |-> "dict", val |-> m, n |-> 0]

\* The content of a file that does not exist.
Missing == "missing"

\* hash_file of a regular file: the digest is a function of the content
\* alone (SHA-256 is taken to be injective on the contents used here);
\* found = FALSE is FileNotFoundError.
hash_file(fs, filepath) ==
    IF filepath \in DOMAIN fs /\ fs[filepath] # Missing
    THEN [found |-> TRUE, hash |-> Sha(fs[filepath])]
    ELSE [found |-> FALSE, hash |-> None]

(***************************************************************************)
(* Rules (rules.py).  A rule is a record                                   *)
(*   kind     "always" | "fallback" | "virtual" | "target" | "pattern"     *)
(*   name     the name given at construction (a target string)             *)
(*   filepath TargetRule.filepath, the normalised name ("target" only)     *)
(*   alts     the one-segment names a pattern's single capture group       *)
(*            matches: the regex "(x|y)" is {"x", "y"} ("pattern" only)    *)
(*   deps     the declared deps; for a pattern, templates in which the     *)
(*            segment "\\1" or "\\2" is a back-reference                   *)
(*   recipe   "none" for the implicit rules, "user" for a recipe of the    *)
(*            build file, "collect_dep_results" for the recipe of group()  *)
(***************************************************************************)

AlwaysName == <<"always">>

AlwaysRule ==
    [kind |-> "always", name |-> AlwaysName, filepath |-> <<>>, alts |-> {},
     deps |-> <<>>, recipe |-> "none"]

FallbackRule ==
    [kind |-> "fallback", name |-> <<"fallback">>, filepath |-> <<>>,
     alts |-> {}, deps |-> <<>>, recipe |-> "none"]

VirtualRule(name, deps) ==
    [kind |-> "virtual", name |-> name, filepath |-> <<>>, alts |-> {},
     deps |-> deps, recipe |-> "user"]

TargetRule(filepath, deps) ==
    [kind |-> "target", name |-> filepath,
     filepath |-> normalize_path(filepath).path, alts |-> {}, deps |-> deps,
     recipe |-> "user"]

PatternRule(alts, deps) ==
    [kind |-> "pattern", name |-> <<"pattern">>, filepath |-> <<>>,
     alts |-> alts, deps |-> deps, recipe |-> "user"]

\* always(): a virtual rule with "always" prepended to its deps.
always(name, deps) == VirtualRule(name, <<AlwaysName>> \o deps)

\* group(): a virtual rule whose recipe is collect_dep_results; alias() is
\* a group of one.
group(name, deps) == [VirtualRule(name, deps) EXCEPT !.recipe = "collect_dep_results"]
alias(name, target) == group(name, <<target>>)

\* Not the code: virtual rules searched after the target rules.  C15 rests
\* on VirtualRule.PRIORITY being lower than that of every file rule.
PRIORITY_files_first(rule) ==
    CASE rule.kind = "always"   -> -1
      [] rule.kind = "virtual"  -> 15
      [] rule.kind = "target"   -> 10
      [] rule.kind = "pattern"  -> 20
      [] rule.kind = "fallback" -> 1000

\* Not the code: the fallback has the priority of the pattern rules.  C26
\* rests on +inf being above every priority a declared rule can have.
PRIORITY_fallback_pattern(rule) ==
    CASE rule.kind = "always"   -> -1
      [] rule.kind = "virtual"  -> 0
      [] rule.kind = "target"   -> 10
      [] rule.kind = "pattern"  -> 20
      [] rule.kind = "fallback" -> 20

\* The PRIORITY class attributes; -inf and +inf are the two extremes.
PRIORITY(rule) ==
    CASE rule.kind = "always"   -> -1
      [] rule.kind = "virtual"  -> 0
      [] rule.kind = "target"   -> 10
      [] rule.kind = "pattern"  -> 20
      [] rule.kind = "fallback" -> 1000

\* A match token; hit = FALSE is Python's None.
NoMatch == [hit |-> FALSE, string |-> <<>>, groups |-> <<>>, error |-> FALSE]

Hit(string, groups, error) ==
    [hit |-> TRUE, string |-> string, groups |-> groups, error |-> error]

\* Not the code: a target rule that compares the target with its name as
\* both are spelled.  C14 rests on file rules normalising what they match.
MatchAsSpelled(rule, target) ==
    CASE rule.kind = "always" ->
            IF target = AlwaysName THEN Hit(target, <<>>, FALSE) ELSE NoMatch
      [] rule.kind = "virtual" ->
            IF rule.name = target THEN Hit(target, <<>>, FALSE) ELSE NoMatch
      [] rule.kind = "target" ->
            LET n == normalize_path(target) IN
            IF n.ok /\ rule.name = target
            THEN Hit(n.path, <<>>, FALSE) ELSE NoMatch
      [] rule.kind = "pattern" ->
            LET n == normalize_path(target) IN
            IF n.ok /\ Len(n.path) = 2 /\ n.path[2] \in rule.alts
            THEN Hit(n.path, <<n.path[2]>>, FALSE) ELSE NoMatch
      [] rule.kind = "fallback" ->
            LET n == normalize_path(target) IN Hit(n.path, <<>>, ~n.ok)

\* rule.match(target)
Match(rule, target) ==
    CASE rule.kind = "always" ->
            IF target = AlwaysName THEN Hit(target, <<>>, FALSE) ELSE NoMatch
      [] rule.kind = "virtual" ->
            IF rule.name = target THEN Hit(target, <<>>, FALSE) ELSE NoMatch
      [] rule.kind = "target" ->
            LET n == normalize_path(target) IN
            IF n.ok /\ rule.filepath = n.path
            THEN Hit(n.path, <<>>, FALSE) ELSE NoMatch
      [] rule.kind = "pattern" ->
            LET n == normalize_path(target) IN
            IF n.ok /\ Len(n.path) = 2 /\ n.path[2] \in rule.alts
            THEN Hit(n.path, <<n.path[2]>>, FALSE) ELSE NoMatch
      [] rule.kind = "fallback" ->
            LET n == normalize_path(target) IN Hit(n.path, <<>>, ~n.ok)

\* rule.target(match): the canonical target.
Target(rule, match) == match.string

\* match.expand(template): ok = FALSE is re.error (a reference to a group
\* the pattern does not have).
BadRef(template, groups) ==
    \E i \in 1..Len(template) :
        \/ template[i] = "\\1" /\ Len(groups) < 1
        \/ template[i] = "\\2" /\ Len(groups) < 2

Expand(template, groups) ==
    [i \in 1..Len(template) |->
        IF template[i] = "\\1" /\ Len(groups) >= 1 THEN groups[1]
        ELSE IF template[i] = "\\2" /\ Len(groups) >= 2 THEN groups[2]
        ELSE template[i]]

\* rule.deps(match): ok = FALSE is an exception out of deps().
Deps(rule, match) ==
    CASE rule.kind \in {"always", "fallback"} -> [ok |-> TRUE, deps |-> <<>>]
      [] rule.kind \in {"virtual", "target"}  -> [ok |-> TRUE, deps |-> rule.deps]
      [] rule.kind = "pattern" ->
            IF \E i \in 1..Len(rule.deps) : BadRef(rule.deps[i], match.groups)
            THEN [ok |-> FALSE, deps |-> <<>>]
            ELSE [ok |-> TRUE,
                  deps |-> [i \in 1..Len(rule.deps) |->
                               Expand(rule.deps[i], match.groups)]]

(***************************************************************************)
(* Registry: the rule list (registry.py)                                   *)
(***************************************************************************)

\* Not the code: list.append, the rules in the order of registration alone.
\* C25 rests on the insertion by priority.
register_append(rs, rule) == Append(rs, rule)

\* Not the code: bisect.insort_left, before every rule of equal priority.
\* C13 rests on ties being kept in the order of registration.
register_left(rs, rule) ==
    LET n == Cardinality({i \in 1..Len(rs) : PRIORITY(rs[i]) < PRIORITY(rule)})
    IN  SubSeq(rs, 1, n) \o <<rule>> \o SubSeq(rs, n + 1, Len(rs))

\* bisect.insort_right keyed by PRIORITY: after every rule of lower or equal
\* priority.
register(rs, rule) ==
    LET n == Cardinality({i \in 1..Len(rs) : PRIORITY(rs[i]) <= PRIORITY(rule)})
    IN  SubSeq(rs, 1, n) \o <<rule>> \o SubSeq(rs, n + 1, Len(rs))

RECURSIVE RegisterAll(_, _)
RegisterAll(rs, new) ==
    IF new = <<>> THEN rs
    ELSE RegisterAll(register(rs, Head(new)), Tail(new))

\* Registry.__init__: the implicit rules.  rules.clean_rule is not defined
\* anywhere in the package and is left out.
RegistryInit == register(register(<<>>, AlwaysRule), FallbackRule)

\* Registry.resolve: the index of the first rule that matches.
resolve(rs, target) ==
    LET hits == {i \in 1..Len(rs) : Match(rs[i], target).hit}
        i == CHOOSE j \in hits : \A k \in hits : j <= k
    IN  [rule |-> i, match |-> Match(rs[i], target)]

(***************************************************************************)
(* Registry: the cache (registry.py)                                       *)
(***************************************************************************)

\* json.loads(json.dumps(v)): a tuple is written as an array and read back
\* as a list; the other values read back as themselves.
\* A dict is written with each of its values written so (the dicts of the
\* model hold no dicts).
JsonScalar(v) == IF v.tag = "tuple" THEN List(v.val) ELSE v
JsonValue(v) ==
    IF v.tag = "dict" THEN Dict([k \in DOMAIN v.val |-> JsonScalar(v.val[k])])
    ELSE JsonScalar(v)

\* The state map as the state file holds it.
JsonData(d) ==
    [t \in DOMAIN d |->
        [inputs |-> [k \in DOMAIN d[t].inputs |-> JsonValue(d[t].inputs[k])],
         result |-> JsonValue(d[t].result)]]

\* Not the code: a needs_update that trusts no record.  C1 rests on the
\* comparison of the collected inputs with the recorded ones.
needs_update_always(d, target, inputs) == "its dependents changed"

\* Not the code: a needs_update that compares the recorded values and not
\* the dep strings they are recorded under.  C16 rests on the keys.
needs_update_values(d, target, inputs) ==
    IF target \notin DOMAIN d THEN "it is not present in the cache"
    ELSE IF {d[target].inputs[k] : k \in DOMAIN d[target].inputs}
              = {inputs[k] : k \in DOMAIN inputs}
         THEN ""
         ELSE "its dependents changed"

\* Not the code: the key sets are compared before "always" is looked for.
\* C27 rests on the order of the two tests.
needs_update_keys_first(d, target, inputs) ==
    IF target \notin DOMAIN d THEN "it is not present in the cache"
    ELSE LET old_inputs == d[target].inputs IN
         IF old_inputs = inputs THEN ""
         ELSE IF DOMAIN old_inputs # DOMAIN inputs
              THEN "the list of dependents has changed"
         ELSE IF AlwaysName \in DOMAIN inputs
              THEN "it depends on the always target"
         ELSE "its dependents changed"

\* Registry.needs_update: the reason, or "" for None.
needs_update(d, target, inputs) ==
    IF target \notin DOMAIN d THEN "it is not present in the cache"
    ELSE LET old_inputs == d[target].inputs IN
         IF old_inputs = inputs THEN ""
         ELSE IF AlwaysName \in DOMAIN inputs
              THEN "it depends on the always target"
         ELSE IF DOMAIN old_inputs # DOMAIN inputs
              THEN "the list of dependents has changed"
         ELSE "its dependents changed"

\* Registry.get_result
get_result(d, target) == IF target \in DOMAIN d THEN d[target].result ELSE None

\* collect_dep_results of group(): deps is the dict {dep: result} that run
\* is given; each of its keys is looked up in the state map as it is spelled.
collect_dep_results(d, deps) ==
    Dict([dep \in DOMAIN deps |-> get_result(d, dep)])

\* Not the code: a save_result that records the result without the inputs.
\* C7 rests on both being written.
save_result_only(d, target, inputs, result) ==
    [t \in DOMAIN d \cup {target} |->
        IF t = target THEN [inputs |-> <<>>, result |-> result] ELSE d[t]]

\* Registry.save_result: the new state map (State.save then writes it).
save_result(d, target, inputs, result) ==
    [t \in DOMAIN d \cup {target} |->
        IF t = target THEN [inputs |-> inputs, result |-> result] ELSE d[t]]

\* inputs[dep] = result
SetInput(inputs, dep, result) ==
    [k \in DOMAIN inputs \cup {dep} |-> IF k = dep THEN result ELSE inputs[k]]

\* Not the code: every rule asks to be run again.  C10 rests on a virtual
\* rule never asking and a file rule asking only when its file changed.
SelfNeedsUpdateAlways(rule, match, result, fs) == TRUE

\* Not the code: a file rule never looks at its file.  C21 rests on
\* FileRule.needs_update hashing the file.
SelfNeedsUpdateNoHash(rule, match, result, fs) ==
    rule.kind \in {"always", "fallback"}

\* rule.needs_update(match, result): the rule's own staleness check.
SelfNeedsUpdate(rule, match, result, fs) ==
    CASE rule.kind \in {"always", "fallback"} -> TRUE
      [] rule.kind = "virtual" -> FALSE
      [] rule.kind \in {"target", "pattern"} ->
            LET h == hash_file(fs, Target(rule, match)) IN
            IF h.found THEN h.hash # result ELSE TRUE

(***************************************************************************)
(* The build files and the world the engine runs in                        *)
(***************************************************************************)

\* How many update calls one behaviour makes, and how many times a file is
\* edited from outside.
MaxUpdates == 2
MaxTouches == 1

A == <<"a">>
B == <<"b">>
F == <<"f">>
G == <<"g">>
P == <<"p">>
DotF == <<".", "f">>
DotG == <<".", "g">>
DotP == <<".", "p">>

\* A build file: virtual rules a and b, a target-file rule for f and a
\* pattern rule "(p)", declared in this order.
Pakefile(a, b, df, dp) == <<a, b, TargetRule(F, df), PatternRule({"p"}, dp)>>

\* The build files of the model: b always runs and a reaches it through b;
\* cycles a -> b -> a and ./p -> p; a cycle met after a dep that is not on
\* it, and a pattern whose deps cannot be expanded; a diamond; a rule that
\* lists itself; a dep under two spellings; a direct dep on always.
Pakefiles ==
    { Pakefile(VirtualRule(A, <<G, B>>), always(B, <<>>), <<B>>, << <<"g">> >>),
      Pakefile(VirtualRule(A, <<B>>), VirtualRule(B, <<A>>), <<A>>, << <<"\\1">> >>),
      Pakefile(VirtualRule(A, <<F, B>>), VirtualRule(B, <<A>>), <<G>>, << <<"\\2">> >>),
      Pakefile(VirtualRule(A, <<B, F>>), VirtualRule(B, <<>>), <<B>>, << <<"g">> >>),
      Pakefile(VirtualRule(A, <<A>>), VirtualRule(B, <<>>), <<DotF>>, << <<"g">> >>),
      Pakefile(VirtualRule(A, <<F, DotF>>), VirtualRule(B, <<>>), <<G>>, << <<"g">> >>),
      Pakefile(always(A, <<P>>), VirtualRule(B, <<>>), <<A>>, << <<"g">> >>) }

\* What a virtual recipe may return, and what a file may hold.
VirtualValues == {Str("v1"), Tuple("v2")}
Contents == {"c1", "c2"}

\* The targets an update may be asked for.
Requests == {A, F, P}

VARIABLES
    rules,      \* Registry.rules
    files,      \* the working directory: canonical path -> content
    disk,       \* the state map the state file holds
    proc,       \* "down", "idle", "updating" or "failed"
    data,       \* State.data of the running engine
    stack,      \* the activations of Rule.update, outermost first
    outcome,    \* how the last update call ended
    log,        \* what the current (or last) update call did, in order
    nonce,      \* how many uuid4 values have been drawn
    updates,    \* how many update calls were made
    touches,    \* how many outside edits were made
    request,    \* the target and force flag of the current (or last) call
    lastOk,     \* the last call, if it succeeded and nothing changed since
    inodes,     \* the files of the host: inode number -> content and lock
    statepath,  \* the inode the state path names, 0 while it names none
    engines,    \* the engines that share the state path
    registered, \* the rules the build file has registered, in that order
    resolved    \* the last call of Registry.resolve and what it returned

drivervars == <<rules, files, disk, proc, data, stack, outcome, log, nonce,
                updates, touches, request, lastOk>>

lockvars == <<inodes, statepath, engines>>

regvars == <<registered, resolved>>

vars == <<drivervars, lockvars, regvars>>

NoData == <<>>
NoTree == <<>>
NoOutcome == [status |-> "none", chain |-> <<>>, message |-> "", cause |-> FALSE,
              result |-> None, tree |-> NoTree]
NoRequest == [op |-> "", target |-> <<>>, force |-> FALSE, repeat |-> FALSE,
              after_forced |-> FALSE, rebuild |-> "none"]
NoLast == [ok |-> FALSE, target |-> <<>>, force |-> FALSE]

\* The host the engines share.  An inode holds a content and at most one
\* flock holder; the state path names one inode or none.
MaxSaves == 2
MaxEngines == 2
Engines == 1..MaxEngines
NoFile == 0
Unlocked == 0

\* A content is the version of the state map it was written from and how
\* much of the text has reached the file: "full", "partial" or "empty".
\* Version 0 is the empty text open(path, "a+") creates, read as {}.
Content(ver, part) == [ver |-> ver, part |-> part]

\* An engine: where it is in State.__init__ or State.save, self.file,
\* new_file, the version of self.data, the version it read or last saved,
\* and how often it has saved.
NewEngine == [pc |-> "new", file |-> NoFile, new_file |-> NoFile, data |-> 0,
              base |-> 0, saves |-> 0]

\* No call of resolve was made.
NoResolved == [done |-> FALSE, target |-> <<>>, rule |-> AlwaysRule]

NoRegistered ==
    /\ registered = <<>>
    /\ resolved = NoResolved

NoHost ==
    /\ inodes = <<>>
    /\ statepath = NoFile
    /\ engines = [e \in Engines |-> NewEngine]

Init ==
    /\ rules \in {RegisterAll(RegistryInit, pf) : pf \in Pakefiles}
    /\ files = [p \in {DotF, DotG, DotP} |-> IF p = DotG THEN "c1" ELSE Missing]
    /\ disk = NoData
    /\ proc = "down"
    /\ data = NoData
    /\ stack = <<>>
    /\ outcome = NoOutcome
    /\ log = <<>>
    /\ nonce = 0
    /\ updates = 0
    /\ touches = 0
    /\ request = NoRequest
    /\ lastOk = NoLast
    /\ NoHost
    /\ NoRegistered

\* One entry of the log: what happened ("enter", "run", "save", "return",
\* "raise"), to which canonical target, under which rule of the list, how
\* deep in the recursion.  A "run" entry also holds what was known when the
\* choice to run was made, a "save" entry the record given to save_result,
\* a "return" entry the result returned.
Event(ev, target, r, depth) ==
    [ev |-> ev, target |-> target, rule |-> r, depth |-> depth,
     force |-> FALSE, cached |-> FALSE, same |-> FALSE, stale |-> FALSE,
     inputs |-> <<>>, result |-> None]

(***************************************************************************)
(* The update driver (rules.py, Rule.update)                               *)
(***************************************************************************)

\* The record of a target in a state map, for remembering it: cached = FALSE
\* when the map has none.
RecordOf(d, target) ==
    IF target \in DOMAIN d
    THEN [cached |-> TRUE, inputs |-> d[target].inputs, result |-> d[target].result]
    ELSE [cached |-> FALSE, inputs |-> <<>>, result |-> None]

\* Not the code: the cycle error reports the chain of the callers, without
\* the target met again.  C4 rests on the target being appended.
EnterCallerChain(r, match, force, chain) ==
    LET rule == rules[r]
        target == Target(rule, match)
        has_cycle == \E i \in 1..Len(chain) : chain[i] = target
        target_chain == Append(chain, target)
        deps == Deps(rule, match)
    IN  IF has_cycle
        THEN [ok |-> FALSE, chain |-> chain,
              message |-> "Dependency cycle detected", cause |-> FALSE]
        ELSE IF ~deps.ok
        THEN [ok |-> FALSE, chain |-> target_chain,
              message |-> "Failed to determine dependencies", cause |-> TRUE]
        ELSE [ok |-> TRUE,
              frame |-> [rule |-> r, match |-> match, target |-> target,
                         chain |-> target_chain, deps |-> deps.deps, i |-> 1,
                         inputs |-> <<>>, force |-> force,
                         before |-> [mem |-> RecordOf(data, target),
                                     disk |-> RecordOf(disk, target)]]]

\* Not the code: a cycle is any target entered before in the same call, on
\* the chain or not.  C5 rests on the check looking at the ancestors only.
EnterVisited(r, match, force, chain) ==
    LET rule == rules[r]
        target == Target(rule, match)
        has_cycle == \/ \E i \in 1..Len(chain) : chain[i] = target
                     \/ \E i \in 1..Len(log) : /\ log[i].ev = "enter"
                                               /\ log[i].target = target
                                               /\ chain # <<>>
        target_chain == Append(chain, target)
        deps == Deps(rule, match)
    IN  IF has_cycle
        THEN [ok |-> FALSE, chain |-> target_chain,
              message |-> "Dependency cycle detected", cause |-> FALSE]
        ELSE IF ~deps.ok
        THEN [ok |-> FALSE, chain |-> target_chain,
              message |-> "Failed to determine dependencies", cause |-> TRUE]
        ELSE [ok |-> TRUE,
              frame |-> [rule |-> r, match |-> match, target |-> target,
                         chain |-> target_chain, deps |-> deps.deps, i |-> 1,
                         inputs |-> <<>>, force |-> force,
                         before |-> [mem |-> RecordOf(data, target),
                                     disk |-> RecordOf(disk, target)]]]

\* Not the code: no cycle check, the deps are entered whatever the chain
\* holds.  C33 rests on the check ending the recursion.
EnterUnchecked(r, match, force, chain) ==
    LET rule == rules[r]
        target == Target(rule, match)
        target_chain == Append(chain, target)
        deps == Deps(rule, match)
    IN  IF ~deps.ok
        THEN [ok |-> FALSE, chain |-> target_chain,
              message |-> "Failed to determine dependencies", cause |-> TRUE]
        ELSE [ok |-> TRUE,
              frame |-> [rule |-> r, match |-> match, target |-> target,
                         chain |-> target_chain, deps |-> deps.deps, i |-> 1,
                         inputs |-> <<>>, force |-> force,
                         before |-> [mem |-> RecordOf(data, target),
                                     disk |-> RecordOf(disk, target)]]]

\* Lines 135-146: the canonical target, the cycle check and the deps.
\* Either the new activation or the BuildError.
Enter(r, match, force, chain) ==
    LET rule == rules[r]
        target == Target(rule, match)
        has_cycle == \E i \in 1..Len(chain) : chain[i] = target
        target_chain == Append(chain, target)
        deps == Deps(rule, match)
    IN  IF has_cycle
        THEN [ok |-> FALSE, chain |-> target_chain,
              message |-> "Dependency cycle detected", cause |-> FALSE]
        ELSE IF ~deps.ok
        THEN [ok |-> FALSE, chain |-> target_chain,
              message |-> "Failed to determine dependencies", cause |-> TRUE]
        ELSE [ok |-> TRUE,
              frame |-> [rule |-> r, match |-> match, target |-> target,
                         chain |-> target_chain, deps |-> deps.deps, i |-> 1,
                         inputs |-> <<>>, force |-> force,
                         before |-> [mem |-> RecordOf(data, target),
                                     disk |-> RecordOf(disk, target)]]]

\* Not the code: the BuildError names the failing target alone.  C18 rests
\* on the chain of the callers being handed down and reported.
RaiseFailingTarget(chain, message, cause) ==
    /\ stack' = <<>>
    /\ proc' = "failed"
    /\ outcome' = [status |-> "error", chain |-> <<chain[Len(chain)]>>,
                   message |-> message, cause |-> cause, result |-> None,
                   tree |-> NoTree]
    /\ lastOk' = NoLast

\* A BuildError leaves every activation: nothing in Rule.update catches it.
Raise(chain, message, cause) ==
    /\ stack' = <<>>
    /\ proc' = "failed"
    /\ outcome' = [status |-> "error", chain |-> chain, message |-> message,
                   cause |-> cause, result |-> None, tree |-> NoTree]
    /\ lastOk' = NoLast

Top == stack[Len(stack)]

\* Not the code: the deps taken last to first.  C6 rests on the declared
\* order.
NextDepReversed(frame) == frame.deps[Len(frame.deps) - frame.i + 1]

\* Line 149: the dep the loop of an activation is at.
NextDep(frame) == frame.deps[frame.i]

\* The activation on top returns result to its caller.
Return(result) ==
    IF Len(stack) = 1
    THEN /\ stack' = <<>>
         /\ proc' = "idle"
         /\ outcome' = [status |-> "ok", chain |-> <<>>, message |-> "",
                        cause |-> FALSE, result |-> result, tree |-> NoTree]
         /\ lastOk' = [ok |-> TRUE, target |-> request.target,
                       force |-> request.force]
    ELSE LET caller == stack[Len(stack) - 1]
             dep == NextDep(caller)
         IN  /\ stack' = [SubSeq(stack, 1, Len(stack) - 1) EXCEPT
                            ![Len(stack) - 1].inputs = SetInput(caller.inputs, dep, result),
                            ![Len(stack) - 1].i = caller.i + 1]
             /\ UNCHANGED <<proc, outcome, lastOk>>

\* State.__init__ and Registry.__init__: the engine starts and loads the
\* state file; the build file registers the same rules every time.
Start ==
    /\ proc = "down"
    /\ updates < MaxUpdates
    /\ proc' = "idle"
    /\ data' = disk
    /\ UNCHANGED <<lockvars, regvars, rules, files, disk, stack, outcome, log, nonce, updates,
                   touches, request, lastOk>>

\* Not the code: main reports the BuildError of one target and goes on to
\* the next.  C28 rests on the first error ending the invocation.
UpdateAfterFailure(target, force) ==
    /\ proc \in {"idle", "failed"}
    /\ updates < MaxUpdates
    /\ updates' = updates + 1
    /\ request' = [op |-> "update", target |-> target, force |-> force,
                   repeat |-> lastOk.ok /\ lastOk.target = target,
                   after_forced |-> lastOk.force, rebuild |-> "none"]
    /\ LET r == resolve(rules, target)
           e == Enter(r.rule, r.match, force, <<>>)
       IN  IF e.ok
           THEN /\ stack' = <<e.frame>>
                /\ proc' = "updating"
                /\ log' = <<Event("enter", e.frame.target, r.rule, 1)>>
                /\ outcome' = NoOutcome
                /\ lastOk' = NoLast
           ELSE /\ Raise(e.chain, e.message, e.cause)
                /\ log' = <<Event("raise", e.chain[Len(e.chain)], r.rule, 1)>>
    /\ UNCHANGED <<lockvars, regvars, rules, files, disk, data, nonce, touches>>

\* resolve(target) and rule.update(match, force=force), up to the deps.
Update(target, force) ==
    /\ proc = "idle"
    /\ updates < MaxUpdates
    /\ updates' = updates + 1
    /\ request' = [op |-> "update", target |-> target, force |-> force,
                   repeat |-> lastOk.ok /\ lastOk.target = target,
                   after_forced |-> lastOk.force, rebuild |-> "none"]
    /\ LET r == resolve(rules, target)
           e == Enter(r.rule, r.match, force, <<>>)
       IN  IF e.ok
           THEN /\ stack' = <<e.frame>>
                /\ proc' = "updating"
                /\ log' = <<Event("enter", e.frame.target, r.rule, 1)>>
                /\ outcome' = NoOutcome
                /\ lastOk' = NoLast
           ELSE /\ Raise(e.chain, e.message, e.cause)
                /\ log' = <<Event("raise", e.chain[Len(e.chain)], r.rule, 1)>>
    /\ UNCHANGED <<lockvars, regvars, rules, files, disk, data, nonce, touches>>

\* Lines 149-153: resolve the next dep and call its rule's update.
UpdateDep ==
    /\ proc = "updating"
    /\ Top.i <= Len(Top.deps)
    /\ LET r == resolve(rules, NextDep(Top))
           e == Enter(r.rule, r.match, Top.force, Top.chain)
       IN  IF e.ok
           THEN /\ stack' = Append(stack, e.frame)
                /\ log' = Append(log, Event("enter", e.frame.target, r.rule, Len(stack) + 1))
                /\ UNCHANGED <<proc, outcome, lastOk>>
           ELSE /\ Raise(e.chain, e.message, e.cause)
                /\ log' = Append(log, Event("raise", e.chain[Len(e.chain)], r.rule,
                                             Len(stack) + 1))
    /\ UNCHANGED <<lockvars, regvars, rules, files, disk, data, nonce, updates, touches, request>>

\* Not the code: a target with a record is never run again unless forced.
\* C9 rests on the inputs, "always" among them, being looked at.
WhyRunUncached(frame) ==
    IF frame.force THEN "forced"
    ELSE IF frame.target \notin DOMAIN data THEN "not cached" ELSE ""

\* Lines 155-162: why the target has to be run, or "" when it is up to date.
WhyRun(frame) ==
    IF frame.force THEN "forced"
    ELSE LET reason == needs_update(data, frame.target, frame.inputs) IN
         IF reason # "" THEN reason
         ELSE IF SelfNeedsUpdate(rules[frame.rule], frame.match,
                                 get_result(data, frame.target), files)
              THEN "rule" ELSE ""

\* The log entries of the activation on top.
TopEvent(ev) == Event(ev, Top.target, Top.rule, Len(stack))

RunEvent ==
    [TopEvent("run") EXCEPT
        !.force = Top.force,
        !.cached = Top.target \in DOMAIN data,
        !.same = Top.target \in DOMAIN data /\ data[Top.target].inputs = Top.inputs,
        !.stale = LET h == hash_file(files, Top.target) IN
                  ~h.found \/ h.hash # get_result(data, Top.target),
        !.inputs = Top.inputs]

\* Line 166 returned normally; lines 172-174: save_result (the state map,
\* then State.save, which rewrites the state file) and return.
Ran(result) ==
    /\ data' = save_result(data, Top.target, Top.inputs, result)
    /\ disk' = JsonData(data')
    /\ Return(get_result(data', Top.target))
    /\ log' = log \o <<RunEvent, [TopEvent("save") EXCEPT !.inputs = Top.inputs,
                                                            !.result = result],
                       [TopEvent("return") EXCEPT
                           !.result = get_result(data', Top.target)]>>

\* Not the code: the failed run leaves a record with no result before the
\* error is raised.  C8 rests on save_result coming after the run.
RunRaisedAfterSave(rule_error, message) ==
    /\ Raise(Top.chain, IF rule_error THEN message ELSE "Recipe raised exception",
             ~rule_error)
    /\ log' = log \o <<RunEvent, TopEvent("raise")>>
    /\ data' = save_result(data, Top.target, Top.inputs, Nonce(0))
    /\ disk' = JsonData(data')

\* Lines 167-171: run raised; RuleError carries its message and no cause.
RunRaised(rule_error, message) ==
    /\ Raise(Top.chain, IF rule_error THEN message ELSE "Recipe raised exception",
             ~rule_error)
    /\ log' = log \o <<RunEvent, TopEvent("raise")>>
    /\ UNCHANGED <<data, disk>>

\* All deps are updated and the target has to be run.
Running(kinds) ==
    /\ proc = "updating"
    /\ Top.i > Len(Top.deps)
    /\ WhyRun(Top) # ""
    /\ rules[Top.rule].kind \in kinds

\* Line 174 alone: the target is up to date, the cached result is returned.
Skip ==
    /\ proc = "updating"
    /\ Top.i > Len(Top.deps)
    /\ WhyRun(Top) = ""
    /\ Return(get_result(data, Top.target))
    /\ log' = Append(log, [TopEvent("return") EXCEPT
                                !.result = get_result(data, Top.target)])
    /\ UNCHANGED <<lockvars, regvars, rules, files, disk, data, nonce, updates, touches, request>>

\* AlwaysRule.run: a fresh unique string.
RunAlways ==
    /\ Running({"always"})
    /\ nonce' = nonce + 1
    /\ Ran(Nonce(nonce + 1))
    /\ UNCHANGED <<lockvars, regvars, rules, files, updates, touches, request>>

\* Not the code: the fallback returns the record it has when the file is
\* gone.  C23 rests on the file being hashed, or missed, on every update.
RunFallbackCached ==
    /\ Running({"fallback"})
    /\ LET h == hash_file(files, Top.target) IN
       IF Top.match.error
       THEN RunRaised(TRUE, "is not a valid filepath and no rule by that name exists")
       ELSE IF h.found THEN Ran(h.hash)
       ELSE IF Top.target \in DOMAIN data THEN Ran(get_result(data, Top.target))
       ELSE RunRaised(TRUE, "File does not exist and there is no rule to create it")
    /\ UNCHANGED <<lockvars, regvars, rules, files, nonce, updates, touches, request>>

\* FallbackRule.run: the hash of the file, or a RuleError.
RunFallback ==
    /\ Running({"fallback"})
    /\ LET h == hash_file(files, Top.target) IN
       IF Top.match.error
       THEN RunRaised(TRUE, "is not a valid filepath and no rule by that name exists")
       ELSE IF h.found THEN Ran(h.hash)
       ELSE RunRaised(TRUE, "File does not exist and there is no rule to create it")
    /\ UNCHANGED <<lockvars, regvars, rules, files, nonce, updates, touches, request>>

\* VirtualRule.run: the recipe returns a value of its choice.
RunVirtual(value) ==
    /\ Running({"virtual"})
    /\ rules[Top.rule].recipe = "user"
    /\ Ran(value)
    /\ UNCHANGED <<lockvars, regvars, rules, files, nonce, updates, touches, request>>

\* VirtualRule.run of a group: the recipe is collect_dep_results.
RunGroup ==
    /\ Running({"virtual"})
    /\ rules[Top.rule].recipe = "collect_dep_results"
    /\ Ran(collect_dep_results(data, Top.inputs))
    /\ UNCHANGED <<lockvars, regvars, rules, files, nonce, updates, touches, request>>

\* Not the code: a file the recipe did not create is recorded with no hash.
\* C22 rests on FileNotFoundError becoming a RuleError.
RunFileUnchecked(content) ==
    /\ Running({"target", "pattern"})
    /\ files' = IF content = Missing THEN files
                ELSE [files EXCEPT ![Top.target] = content]
    /\ Ran(hash_file(files', Top.target).hash)
    /\ UNCHANGED <<lockvars, regvars, rules, nonce, updates, touches, request>>

\* FileRule.run: the recipe writes the target file (or leaves the working
\* directory as it is), then the file is hashed.
RunFile(content) ==
    /\ Running({"target", "pattern"})
    /\ files' = IF content = Missing THEN files
                ELSE [files EXCEPT ![Top.target] = content]
    /\ LET h == hash_file(files', Top.target) IN
       IF h.found THEN Ran(h.hash)
       ELSE RunRaised(TRUE, "Recipe ran successfully but did not create the file")
    /\ UNCHANGED <<lockvars, regvars, rules, nonce, updates, touches, request>>

\* The recipe of a virtual or file rule raises RuleError or something else.
RunRecipeRaises(rule_error) ==
    /\ Running({"virtual", "target", "pattern"})
    /\ rules[Top.rule].recipe = "user"
    /\ RunRaised(rule_error, "recipe's message")
    /\ UNCHANGED <<lockvars, regvars, rules, files, nonce, updates, touches, request>>

(***************************************************************************)
(* The dependency tree (rules.py, Rule.get_deps)                           *)
(***************************************************************************)

\* What Rule.get_deps raises.
DepsError(chain, message, cause) ==
    [ok |-> FALSE, chain |-> chain, message |-> message, cause |-> cause,
     tree |-> NoTree]

\* Lines 124-130: the BuildError of the first dep, in declared order, that
\* raises one, or result, which has one key for each dep string.
DepsResult(deps, sub) ==
    IF \E i \in 1..Len(deps) : ~sub[i].ok
    THEN sub[CHOOSE i \in 1..Len(deps) :
                 ~sub[i].ok /\ \A j \in 1..(i - 1) : sub[j].ok]
    ELSE [ok |-> TRUE, chain |-> <<>>, message |-> "", cause |-> FALSE,
          tree |-> [dep \in {deps[i] : i \in 1..Len(deps)} |->
                      sub[CHOOSE i \in 1..Len(deps) : deps[i] = dep].tree]]

RECURSIVE get_deps(_, _, _)

\* rule.get_deps(dep_match, _target_chain), for what resolve returned.
DepsBelow(d, chain) == get_deps(d.rule, d.match, chain)

\* Lines 111-122 once the target and the deps are known, then the loop.
DepsFrom(target, deps, chain) ==
    IF \E i \in 1..Len(chain) : chain[i] = target
    THEN DepsError(Append(chain, target), "Dependency cycle detected", FALSE)
    ELSE IF ~deps.ok
    THEN DepsError(Append(chain, target), "Failed to determine dependencies", TRUE)
    ELSE DepsResult(deps.deps,
                    [i \in 1..Len(deps.deps) |->
                        DepsBelow(resolve(rules, deps.deps[i]), Append(chain, target))])

\* Rule.get_deps: the tree {dep: tree of dep}, or the BuildError.
get_deps(r, match, chain) ==
    DepsFrom(Target(rules[r], match), Deps(rules[r], match), chain)

\* How a get_deps call ended.
DepsOutcome(g, target) ==
    [status |-> IF g.ok THEN "ok" ELSE "error",
     chain |-> g.chain, message |-> g.message, cause |-> g.cause, result |-> None,
     tree |-> IF g.ok THEN [t \in {target} |-> g.tree] ELSE NoTree]

\* Not the code: get_deps leaves a record of the target it was asked for in
\* the state map and the state file.  C20 rests on get_deps writing nothing.
GetDepsRecording(target) ==
    /\ proc = "idle"
    /\ updates < MaxUpdates
    /\ request.op # "get_deps"
    /\ request' = [NoRequest EXCEPT !.op = "get_deps", !.target = target]
    /\ outcome' = DepsOutcome(DepsBelow(resolve(rules, target), <<>>), target)
    /\ proc' = IF outcome'.status = "ok" THEN "idle" ELSE "failed"
    /\ log' = <<>>
    /\ data' = save_result(data, target, <<>>, None)
    /\ disk' = JsonData(data')
    /\ UNCHANGED <<lockvars, regvars, rules, files, stack, nonce, updates, touches,
                   lastOk>>

\* Registry.get_deps(target): resolve the target and ask its rule.
GetDeps(target) ==
    /\ proc = "idle"
    /\ updates < MaxUpdates
    /\ request.op # "get_deps"
    /\ request' = [NoRequest EXCEPT !.op = "get_deps", !.target = target]
    /\ outcome' = DepsOutcome(DepsBelow(resolve(rules, target), <<>>), target)
    /\ proc' = IF outcome'.status = "ok" THEN "idle" ELSE "failed"
    /\ log' = <<>>
    /\ UNCHANGED <<lockvars, regvars, rules, files, disk, data, stack, nonce, updates, touches,
                   lastOk>>

\* main's rebuild: None, "shallow" (--rebuild) or "deep" (--rebuild-all).
RebuildModes == {"none", "shallow", "deep"}

\* Registry.update(target, rebuild), the call main makes for each target:
\* the rule is resolved, then rule.update(match, rebuild=rebuild) names a
\* parameter Rule.update(self, match, force, _target_chain) does not have.
\* Python raises TypeError when it binds the arguments, before the first
\* line of Rule.update; main catches PakeError only, so the process ends.
RegistryUpdate(target, rebuild) ==
    /\ proc = "idle"
    /\ updates < MaxUpdates
    /\ request.op # "Registry.update"
    /\ request' = [NoRequest EXCEPT !.op = "Registry.update", !.target = target,
                                     !.rebuild = rebuild]
    /\ outcome' = [NoOutcome EXCEPT !.status = "TypeError",
                      !.message = "update() got an unexpected keyword argument 'rebuild'"]
    /\ proc' = "failed"
    /\ log' = <<>>
    /\ lastOk' = NoLast
    /\ UNCHANGED <<lockvars, regvars, rules, files, disk, data, stack, nonce, updates, touches>>

\* The engine exits (main returns, or reports the error and exits).
Exit ==
    /\ proc \in {"idle", "failed"}
    /\ proc' = "down"
    /\ data' = NoData
    /\ UNCHANGED <<lockvars, regvars, rules, files, disk, stack, outcome, log, nonce, updates,
                   touches, request, lastOk>>

\* Somebody edits, creates or deletes a file between two runs of the engine.
Touch(path, content) ==
    /\ proc = "down"
    /\ updates < MaxUpdates
    /\ touches < MaxTouches
    /\ files[path] # content
    /\ files' = [files EXCEPT ![path] = content]
    /\ touches' = touches + 1
    /\ lastOk' = NoLast
    /\ UNCHANGED <<lockvars, regvars, rules, disk, proc, data, stack, outcome, log, nonce, updates,
                   request>>

Next ==
    \/ Start
    \/ \E target \in Requests, force \in BOOLEAN : Update(target, force)
    \/ \E target \in Requests : GetDeps(target)
    \/ \E target \in Requests, rebuild \in RebuildModes : RegistryUpdate(target, rebuild)
    \/ UpdateDep
    \/ Skip
    \/ RunAlways
    \/ RunFallback
    \/ \E value \in VirtualValues : RunVirtual(value)
    \/ \E content \in Contents \cup {Missing} : RunFile(content)
    \/ \E rule_error \in BOOLEAN : RunRecipeRaises(rule_error)
    \/ Exit
    \/ \E path \in {DotF, DotG}, content \in Contents \cup {Missing} :
          Touch(path, content)

Spec == Init /\ [][Next]_vars

(***************************************************************************)
(* The state file (registry.py, State): two engines on one state path,     *)
(* one system call per step.                                               *)
(***************************************************************************)

LockInit ==
    /\ rules = RegistryInit
    /\ files = [p \in {DotF, DotG, DotP} |-> Missing]
    /\ disk = NoData
    /\ proc = "down"
    /\ data = NoData
    /\ stack = <<>>
    /\ outcome = NoOutcome
    /\ log = <<>>
    /\ nonce = 0
    /\ updates = 0
    /\ touches = 0
    /\ request = NoRequest
    /\ lastOk = NoLast
    /\ NoHost
    /\ NoRegistered

\* close(): a lock goes with the descriptor that took it.
Close(ins, e, file) ==
    IF file # NoFile /\ ins[file].lock = e
    THEN [ins EXCEPT ![file].lock = Unlocked]
    ELSE ins

\* open(self.path, "a+"): the file is created, empty, if the path names none.
Open(e) ==
    /\ engines[e].pc \in {"new", "retry"}
    /\ IF statepath = NoFile
       THEN /\ inodes' = Append(inodes, [content |-> Content(0, "full"),
                                         lock |-> Unlocked])
            /\ statepath' = Len(inodes) + 1
       ELSE UNCHANGED <<inodes, statepath>>
    /\ engines' = [engines EXCEPT ![e].pc = "opened", ![e].file = statepath']
    /\ UNCHANGED <<drivervars, regvars>>

\* Not the code: a lock that is held sends the engine round the loop again,
\* as the inode check does.  C19 rests on the PakeError ending the loop.
FlockRetry(e) ==
    /\ engines[e].pc = "opened"
    /\ IF inodes[engines[e].file].lock \in {Unlocked, e}
       THEN /\ inodes' = [inodes EXCEPT ![engines[e].file].lock = e]
            /\ engines' = [engines EXCEPT ![e].pc = "locked"]
       ELSE /\ engines' = [engines EXCEPT ![e].pc = "retry", ![e].file = NoFile]
            /\ UNCHANGED inodes
    /\ UNCHANGED <<statepath, drivervars, regvars>>

\* flock(LOCK_EX | LOCK_NB): BlockingIOError becomes the PakeError "The state
\* file is locked", which ends the construction.
Flock(e) ==
    /\ engines[e].pc = "opened"
    /\ IF inodes[engines[e].file].lock \in {Unlocked, e}
       THEN /\ inodes' = [inodes EXCEPT ![engines[e].file].lock = e]
            /\ engines' = [engines EXCEPT ![e].pc = "locked"]
       ELSE /\ engines' = [engines EXCEPT ![e].pc = "locked_error"]
            /\ UNCHANGED inodes
    /\ UNCHANGED <<statepath, drivervars, regvars>>

\* fstat against stat(self.path): the same inode or not.
SameFile(e) == engines[e].file = statepath

\* Not the code: the loop is left as soon as the lock is taken.  C2 rests on
\* the comparison of the locked inode with the one the path names.
CheckNothing(e) ==
    /\ engines[e].pc = "locked"
    /\ engines' = [engines EXCEPT ![e].pc = "checked"]
    /\ UNCHANGED <<inodes, statepath, drivervars, regvars>>

\* Not the code: the inode check fails whatever the path names, and the
\* engine goes round the loop again.  C34 rests on the loop being left when
\* the locked file is the one the path names.
CheckRetry(e) ==
    /\ engines[e].pc = "locked"
    /\ inodes' = Close(inodes, e, engines[e].file)
    /\ engines' = [engines EXCEPT ![e].pc = "retry", ![e].file = NoFile]
    /\ UNCHANGED <<statepath, drivervars, regvars>>

\* The inode check: close and go round again, or leave the loop.
Check(e) ==
    /\ engines[e].pc = "locked"
    /\ IF SameFile(e)
       THEN /\ engines' = [engines EXCEPT ![e].pc = "checked"]
            /\ UNCHANGED inodes
       ELSE /\ inodes' = Close(inodes, e, engines[e].file)
            /\ engines' = [engines EXCEPT ![e].pc = "retry", ![e].file = NoFile]
    /\ UNCHANGED <<statepath, drivervars, regvars>>

\* seek(0), read(), json.loads: anything but a complete text fails to parse.
Load(e) ==
    /\ engines[e].pc = "checked"
    /\ LET content == inodes[engines[e].file].content
       IN IF content.part = "full"
          THEN engines' = [engines EXCEPT ![e].pc = "ready",
                                          ![e].data = content.ver,
                                          ![e].base = content.ver]
          ELSE engines' = [engines EXCEPT ![e].pc = "json_error"]
    /\ UNCHANGED <<inodes, statepath, drivervars, regvars>>

\* Not the code: save() opens the state path itself with "w", which cuts
\* the file to nothing.  C3 rests on the new text going to another file.
SaveOpenInPlace(e) ==
    /\ engines[e].pc = "ready"
    /\ engines[e].saves < MaxSaves
    /\ inodes' = [inodes EXCEPT ![statepath].content =
                                    Content(engines[e].data + 1, "empty")]
    /\ engines' = [engines EXCEPT ![e].pc = "save_opened",
                                  ![e].data = @ + 1,
                                  ![e].new_file = statepath]
    /\ UNCHANGED <<statepath, drivervars, regvars>>

\* Registry.save_result changes self.data in place and calls save(), which
\* opens a new file under a name no one else knows.
SaveOpen(e) ==
    /\ engines[e].pc = "ready"
    /\ engines[e].saves < MaxSaves
    /\ inodes' = Append(inodes, [content |-> Content(engines[e].data + 1, "empty"),
                                 lock |-> Unlocked])
    /\ engines' = [engines EXCEPT ![e].pc = "save_opened",
                                  ![e].data = @ + 1,
                                  ![e].new_file = Len(inodes) + 1]
    /\ UNCHANGED <<statepath, drivervars, regvars>>

\* write(): the text is in the buffer, and some of it may be in the file.
SaveWrite(e, part) ==
    /\ engines[e].pc = "save_opened"
    /\ inodes' = [inodes EXCEPT ![engines[e].new_file].content.part = part]
    /\ engines' = [engines EXCEPT ![e].pc = "save_written"]
    /\ UNCHANGED <<statepath, drivervars, regvars>>

\* flush(): all of the text is in the file.
SaveFlush(e) ==
    /\ engines[e].pc = "save_written"
    /\ inodes' = [inodes EXCEPT ![engines[e].new_file].content.part = "full"]
    /\ engines' = [engines EXCEPT ![e].pc = "save_flushed"]
    /\ UNCHANGED <<statepath, drivervars, regvars>>

\* Not the code: the new file is renamed into place without being locked
\* first.  C24 rests on the lock being taken before the rename.
SaveFlockNoLock(e) ==
    /\ engines[e].pc = "save_flushed"
    /\ engines' = [engines EXCEPT ![e].pc = "save_locked"]
    /\ UNCHANGED <<inodes, statepath, drivervars, regvars>>

\* flock() of the new file, before it has the path's name.
SaveFlock(e) ==
    /\ engines[e].pc = "save_flushed"
    /\ inodes[engines[e].new_file].lock \in {Unlocked, e}
    /\ inodes' = [inodes EXCEPT ![engines[e].new_file].lock = e]
    /\ engines' = [engines EXCEPT ![e].pc = "save_locked"]
    /\ UNCHANGED <<statepath, drivervars, regvars>>

\* os.rename(temp_path, self.path)
SaveRename(e) ==
    /\ engines[e].pc = "save_locked"
    /\ statepath' = engines[e].new_file
    /\ engines' = [engines EXCEPT ![e].pc = "save_renamed"]
    /\ UNCHANGED <<inodes, drivervars, regvars>>

\* self.file.close(); self.file = new_file
SaveClose(e) ==
    /\ engines[e].pc = "save_renamed"
    /\ inodes' = Close(inodes, e, engines[e].file)
    /\ engines' = [engines EXCEPT ![e].pc = "ready",
                                  ![e].file = engines[e].new_file,
                                  ![e].new_file = NoFile,
                                  ![e].base = engines[e].data,
                                  ![e].saves = @ + 1]
    /\ UNCHANGED <<statepath, drivervars, regvars>>

\* The process ends, by exit, by the PakeError or by a crash at any point:
\* every descriptor it holds is closed.
Die(e) ==
    /\ engines[e].pc \notin {"new", "dead"}
    /\ inodes' = Close(Close(inodes, e, engines[e].file), e, engines[e].new_file)
    /\ engines' = [engines EXCEPT ![e].pc = "dead", ![e].file = NoFile,
                                  ![e].new_file = NoFile]
    /\ UNCHANGED <<statepath, drivervars, regvars>>

LockNext ==
    \/ \E e \in Engines : Open(e)
    \/ \E e \in Engines : Flock(e)
    \/ \E e \in Engines : Check(e)
    \/ \E e \in Engines : Load(e)
    \/ \E e \in Engines : SaveOpen(e)
    \/ \E e \in Engines, part \in {"empty", "partial"} : SaveWrite(e, part)
    \/ \E e \in Engines : SaveFlush(e)
    \/ \E e \in Engines : SaveFlock(e)
    \/ \E e \in Engines : SaveRename(e)
    \/ \E e \in Engines : SaveClose(e)
    \/ \E e \in Engines : Die(e)

LockSpec == LockInit /\ [][LockNext]_vars

(***************************************************************************)
(* Registration and resolution (registry.py, register and resolve): a      *)
(* build file registers rules in any order, and targets are resolved.      *)
(***************************************************************************)

\* How many rules the build file registers.
MaxRules == 3

\* The rules a build file may register: two virtual rules of one name, two
\* target rules of one file under two spellings, two patterns that match
\* that file, a virtual rule named like a path, and one named "always".
RulePool ==
    { VirtualRule(F, <<>>), VirtualRule(F, <<B>>),
      TargetRule(F, <<>>), TargetRule(<<"d", "..", "f">>, <<>>),
      PatternRule({"f"}, <<>>), PatternRule({"f", "p"}, <<>>),
      VirtualRule(DotF, <<>>), VirtualRule(AlwaysName, <<>>) }

\* The strings that are resolved.
Spellings ==
    { F, DotF, <<"d", "..", "f">>, <<".", ".", "f">>, P, A, AlwaysName,
      <<".", "always">>, <<"..", "f">> }

ResolveInit ==
    /\ rules = RegistryInit
    /\ files = [p \in {DotF, DotG, DotP} |-> Missing]
    /\ disk = NoData
    /\ proc = "down"
    /\ data = NoData
    /\ stack = <<>>
    /\ outcome = NoOutcome
    /\ log = <<>>
    /\ nonce = 0
    /\ updates = 0
    /\ touches = 0
    /\ request = NoRequest
    /\ lastOk = NoLast
    /\ NoHost
    /\ NoRegistered

enginevars == <<files, disk, proc, data, stack, outcome, log, nonce, updates,
                touches, request, lastOk>>

\* Rule.__init__ (rules.py 101-104): the rule registers itself.
Register(rule) ==
    /\ Len(registered) < MaxRules
    /\ \A i \in 1..Len(registered) : registered[i] # rule
    /\ rules' = register(rules, rule)
    /\ registered' = Append(registered, rule)
    /\ resolved' = NoResolved
    /\ UNCHANGED <<enginevars, lockvars>>

\* Registry.resolve(target)
Resolve(target) ==
    /\ resolved' = [done |-> TRUE, target |-> target,
                    rule |-> rules[resolve(rules, target).rule]]
    /\ UNCHANGED <<rules, registered, enginevars, lockvars>>

ResolveNext ==
    \/ \E rule \in RulePool : Register(rule)
    \/ \E target \in Spellings : Resolve(target)

ResolveSpec == ResolveInit /\ [][ResolveNext]_vars

(***************************************************************************)
(* Vocabulary of the properties                                            *)
(***************************************************************************)

\* The positions of the log at which a rule's run was called.
Runs == {i \in 1..Len(log) : log[i].ev = "run"}

\* A rule the build file declared, as opposed to the two implicit ones.
UserRule(r) == rules[r].kind \in {"virtual", "target", "pattern"}

\* The deps of the rule a target string resolves to.
DepsOf(t) ==
    LET r == resolve(rules, t)
        d == Deps(rules[r.rule], r.match)
    IN  IF d.ok THEN {d.deps[i] : i \in 1..Len(d.deps)} ELSE {}

\* The target strings reached from the strings of S along deps.
RECURSIVE Reach(_)
Reach(S) ==
    LET more == S \cup UNION {DepsOf(t) : t \in S}
    IN  IF more = S THEN S ELSE Reach(more)

\* The canonical target of a target string, and the canonical targets of
\* the deps of a target string.
Canon(t) == LET r == resolve(rules, t) IN Target(rules[r.rule], r.match)
CanonDepsOf(t) == {Canon(d) : d \in DepsOf(t)}

\* The target depends, directly or through other targets, on itself.
OnCycle(t) == Canon(t) \in {Canon(x) : x \in Reach(DepsOf(t))}

\* The current (or last) call has ended, one way or the other.
Finished == request.op # "" /\ proc \in {"idle", "failed", "down"}

CycleError == outcome.status = "error" /\ outcome.message = "Dependency cycle detected"

\* chain starts at the requested target, follows deps, repeats no target
\* before its last element, and ends in a target it already holds.
IsCycleChain(chain, requested) ==
    LET n == Len(chain) IN
    /\ n >= 2
    /\ chain[1] = Canon(requested)
    /\ \A i \in 1..(n - 1) : chain[i + 1] \in CanonDepsOf(chain[i])
    /\ \A i, j \in 1..(n - 1) : i # j => chain[i] # chain[j]
    /\ \E i \in 1..(n - 1) : chain[i] = chain[n]

\* The current call repeats the call before it: same target, the earlier
\* call succeeded, no file was edited from outside since, nothing is forced.
Repeated == request.repeat /\ ~request.force

(***************************************************************************)
(* C1  Idempotence.                                                        *)
(***************************************************************************)

\* C1 as stated: an update that repeats a successful update of the same
\* target, with no filesystem change in between, calls no rule's run.
C1_RepeatCallsNoRun == Repeated => Runs = {}

\* C1 amended: when the target does not reach "always" and the earlier
\* update was not forced, a repeated update runs no recipe of a declared
\* rule; the only run called is the fallback rule's, which hashes the source
\* files again.
C1_RepeatRunsNoRecipe ==
    (Repeated /\ ~request.after_forced /\ AlwaysName \notin Reach({request.target}))
        => \A i \in Runs : rules[log[i].rule].kind = "fallback"

\* A repeated update of a target that has declared rules and a source file
\* below it has returned.
C1_Witness ==
    /\ Repeated
    /\ ~request.after_forced
    /\ AlwaysName \notin Reach({request.target})
    /\ proc = "idle"
    /\ outcome.status = "ok"
    /\ \E i \in 1..Len(log) : log[i].ev = "return" /\ rules[log[i].rule].kind = "virtual"
    /\ \E i \in 1..Len(log) : log[i].ev = "return" /\ rules[log[i].rule].kind = "target"
    /\ \E i \in Runs : rules[log[i].rule].kind = "fallback"

(***************************************************************************)
(* C2  Lock exclusivity.                                                   *)
(***************************************************************************)

SavePcs == {"save_opened", "save_written", "save_flushed", "save_locked",
            "save_renamed"}

\* State.__init__ has returned and the process is alive.
Constructed(e) == engines[e].pc \in {"ready"} \cup SavePcs

\* C2: of two engines started on one state path, whatever the interleaving
\* of their open, lock and inode-check steps with the holder's save steps,
\* never have both completed State construction while both are alive; while
\* one is constructed the other is not started, still inside the loop, ended
\* by the "state file is locked" PakeError, or dead, and no construction
\* ends by any other error.
C2_LockExclusivity ==
    /\ \A e1, e2 \in Engines :
           (e1 # e2 /\ Constructed(e1)) =>
               engines[e2].pc \in {"new", "opened", "locked", "retry",
                                   "locked_error", "dead"}
    /\ \A e \in Engines : engines[e].pc # "json_error"
    /\ \E e \in Engines : engines[e].pc # "locked_error"

\* The holder has renamed its second save into place and not yet closed the
\* old descriptor; the other engine has met the lock.
C2_Witness ==
    /\ engines[1].pc = "save_renamed"
    /\ engines[1].saves = 1
    /\ engines[2].pc = "locked_error"
    /\ engines[2].file = statepath

(***************************************************************************)
(* C3  Atomic persistence.                                                 *)
(***************************************************************************)

PathContent == inodes[statepath].content

\* C3: the file the state path names always holds a complete text; at every
\* step of a save before the rename it is the text the engine read or last
\* saved, after the rename it is the text of the engine's data; and the
\* content under the path changes only by a rename (so not when a process
\* dies part-way through a save).
C3_AtomicPersistence ==
    /\ [](/\ statepath # NoFile => PathContent.part = "full"
          /\ \A e \in Engines :
                 /\ engines[e].pc \in SavePcs \ {"save_renamed"} =>
                        PathContent = Content(engines[e].base, "full")
                 /\ engines[e].pc = "save_renamed" =>
                        PathContent = Content(engines[e].data, "full")
                 /\ engines[e].pc = "ready" =>
                        PathContent = Content(engines[e].data, "full"))
    /\ [][(statepath # NoFile /\ PathContent' # PathContent) =>
              \E e \in Engines : /\ engines[e].pc = "save_locked"
                                 /\ engines'[e].pc = "save_renamed"]_vars

\* An engine died between the write and the rename of its second save: the
\* path still names the text of its first save.
C3_Witness ==
    /\ \E e \in Engines : /\ engines[e].pc = "dead"
                          /\ engines[e].saves = 1
                          /\ engines[e].data = 2
                          /\ engines[e].base = 1
    /\ PathContent = Content(1, "full")
    /\ \E i \in 1..Len(inodes) : inodes[i].content = Content(2, "partial")

(***************************************************************************)
(* C4  Cycle detection reports an error.                                   *)
(***************************************************************************)

C5_CycleRunsNothing ==
    (request.op = "update" /\ CycleError)
        => \A i \in Runs : ~UserRule(log[i].rule)

\* C5 amended: when update fails on a cycle, no target of the reported chain
\* was run during it; what ran are targets that were completely updated
\* before the cycle was met.
C5_CycleRunsNoChainTarget ==
    (request.op = "update" /\ CycleError)
        => \A i \in Runs : \A k \in 1..Len(outcome.chain) :
               log[i].target # outcome.chain[k]

\* update("a") with a -> [f, b] and b -> a: f was run and saved, then the
\* cycle a, b, a was reported.
C5_Witness ==
    /\ request.op = "update"
    /\ CycleError
    /\ outcome.chain = <<A, B, A>>
    /\ \E i \in Runs : log[i].target = DotF /\ UserRule(log[i].rule)

(***************************************************************************)
(* Reading the log                                                         *)
(***************************************************************************)

\* The k-th smallest element of a set of positions.
Nth(S, k) == CHOOSE x \in S : Cardinality({y \in S : y < x}) = k - 1

\* The "enter" entry of the activation that the entry at p belongs to.
EnterOf(p) ==
    LET E == {i \in 1..(p - 1) : /\ log[i].ev = "enter"
                                 /\ log[i].target = log[p].target
                                 /\ log[i].depth = log[p].depth}
    IN  CHOOSE i \in E : \A j \in E : j <= i

\* The "enter" entries of the activations called directly between q and p.
Kids(q, p) ==
    {i \in (q + 1)..(p - 1) : log[i].ev = "enter" /\ log[i].depth = log[q].depth + 1}

\* The deps of the activation that the entry at p belongs to.
DepsAt(p) ==
    LET rule == rules[log[p].rule] IN Deps(rule, Match(rule, log[p].target)).deps

(***************************************************************************)
(* C6  Dependency-before-dependent ordering.                               *)
(***************************************************************************)

\* C6: when a rule's run is called, each of its deps has been entered, in
\* declared order, each has returned before the next was entered and before
\* the run, whatever was run below it was saved, and the inputs given to the
\* run hold what the deps returned.
C6_DepsBeforeRun ==
    \A p \in Runs :
        LET q == EnterOf(p)
            deps == DepsAt(p)
            kids == Kids(q, p)
        IN  /\ Cardinality(kids) = Len(deps)
            /\ \A k \in 1..Len(deps) :
                  LET c == Nth(kids, k)
                      r == (IF k < Len(deps) THEN Nth(kids, k + 1) ELSE p) - 1
                  IN  /\ log[c].target = Canon(deps[k])
                      /\ log[r].ev = "return"
                      /\ log[r].target = log[c].target
                      /\ log[r].depth = log[c].depth
                      /\ \A j \in c..r : log[j].ev = "run" => log[j + 1].ev = "save"
                      /\ (\A m \in (k + 1)..Len(deps) : deps[m] # deps[k])
                            => log[p].inputs[deps[k]] = log[r].result

\* The run of a, which declares two deps, was called.
C6_Witness ==
    \E p \in Runs : log[p].target = A /\ Len(DepsAt(p)) = 2 /\ log[p].depth = 1

(***************************************************************************)
(* C7  Persist-on-success.                                                 *)
(***************************************************************************)

\* The step just taken ran a target, saved it and returned.
JustSaved ==
    /\ Len(log) >= 3
    /\ log[Len(log)].ev = "return"
    /\ log[Len(log) - 1].ev = "save"

\* C7: a run that returns is followed at once by one save and the return;
\* the save leaves {inputs, result} under the canonical target in the state
\* file, and its result is what the update returns; and the state file
\* changes in no other step, so a target found up to date writes nothing.
C7_SavedOncePerRun ==
    /\ [](/\ \A i \in 1..Len(log) :
                /\ (log[i].ev = "run" /\ i < Len(log) /\ log[i + 1].ev # "raise")
                      => /\ log[i + 1].ev = "save" /\ log[i + 2].ev = "return"
                         /\ log[i + 1].target = log[i].target
                         /\ log[i + 2].target = log[i].target
                         /\ log[i + 1].inputs = log[i].inputs
                /\ log[i].ev = "save" => (i > 1 /\ log[i - 1].ev = "run")
          /\ JustSaved =>
                LET e == log[Len(log) - 1] IN
                /\ e.target \in DOMAIN disk
                /\ disk[e.target].inputs = [k \in DOMAIN e.inputs |-> JsonValue(e.inputs[k])]
                /\ disk[e.target].result = JsonValue(e.result)
                /\ log[Len(log)].result = e.result)
    /\ [][disk' # disk => (log' # log /\ JustSaved')]_vars

\* A target was run and saved, and another one was found up to date.
C7_Witness ==
    /\ JustSaved
    /\ UserRule(log[Len(log)].rule)
    /\ \E i \in 2..Len(log) :
          log[i].ev = "return" /\ log[i - 1].ev = "enter" /\ UserRule(log[i].rule)

(***************************************************************************)
(* C8  Failure leaves the prior record intact.                             *)
(***************************************************************************)

\* C8: while a target is being updated its record, in memory and in the
\* state file, stays what it was when the update of that target began, and
\* the step in which a recipe raises, the deps cannot be determined or a
\* cycle is found changes neither the state map nor the state file.
C8_FailureKeepsRecord ==
    /\ [](\A k \in 1..Len(stack) :
             /\ RecordOf(data, stack[k].target) = stack[k].before.mem
             /\ RecordOf(disk, stack[k].target) = stack[k].before.disk)
    /\ [][(proc' = "failed" /\ proc # "failed") => (data' = data /\ disk' = disk)]_vars

\* The recipe of a target that has a record raised.
C8_Witness ==
    /\ proc = "failed"
    /\ Len(log) >= 2
    /\ log[Len(log)].ev = "raise"
    /\ log[Len(log) - 1].ev = "run"
    /\ UserRule(log[Len(log)].rule)
    /\ log[Len(log)].target \in DOMAIN data
    /\ log[Len(log)].target \in DOMAIN disk

(***************************************************************************)
(* C9  Always semantics.                                                   *)
(***************************************************************************)

\* The entry at p is the return of an activation that ran its target.
ReturnedAfterRun(p) ==
    p >= 3 /\ log[p].ev = "return" /\ log[p - 1].ev = "save" /\ log[p - 2].ev = "run"

\* The positions at which an activation of a declared rule returned.
Returns == {p \in 1..Len(log) : log[p].ev = "return" /\ UserRule(log[p].rule)}

C10_RunsOnlyOnChange ==
    \A p \in Runs :
        /\ rules[log[p].rule].kind = "virtual"
              => (log[p].force \/ ~log[p].cached \/ ~log[p].same)
        /\ rules[log[p].rule].kind \in {"target", "pattern"}
              => (log[p].force \/ ~log[p].cached \/ ~log[p].same \/ log[p].stale)

\* b was run again and returned what the record of a holds for it, and a,
\* which depends on b, returned without being run.
C10_Witness ==
    \E p \in Returns :
        /\ log[p].target = A
        /\ ~ReturnedAfterRun(p)
        /\ \E i \in Runs :
              /\ i < p
              /\ log[i].target = B
              /\ log[i].cached
              /\ log[i + 1].ev = "save"
              /\ data # NoData
              /\ data[A].inputs[B] = log[i + 1].result

(***************************************************************************)
(* C11  Shallow rebuild.                                                   *)
(***************************************************************************)

\* The call Registry.update(target, rebuild = mode) has ended.
Rebuilt(mode) ==
    request.op = "Registry.update" /\ request.rebuild = mode /\ Finished

\* C11 as stated: update(target, rebuild = "shallow") runs the recipe of the
\* requested target, and forces none of the targets below it.
C11_ShallowRunsTop ==
    Rebuilt("shallow") =>
        /\ \E i \in Runs : log[i].depth = 1 /\ log[i].target = Canon(request.target)
        /\ \A i \in Runs : log[i].depth > 1 => ~log[i].force

(***************************************************************************)
(* C12  Deep rebuild.                                                      *)
(***************************************************************************)

\* C12 as stated: update(target, rebuild = "deep") runs the recipe of every
\* target reached from the requested one.
C12_DeepRunsAll ==
    Rebuilt("deep") =>
        \A t \in Reach({request.target}) : \E i \in Runs : log[i].target = Canon(t)

\* What Rule.update does when it is called with force = True, which no call
\* of Registry.update reaches: a forced update that succeeds has run every
\* target reached from the requested one.
ForcedUpdateRunsAll ==
    (request.op = "update" /\ request.force /\ proc = "idle" /\ outcome.status = "ok")
        => \A t \in Reach({request.target}) : \E i \in Runs : log[i].target = Canon(t)

(***************************************************************************)
(* C13  Resolution picks the best match.                                   *)
(***************************************************************************)

\* Every rule in the order of its registration: Registry.__init__ registers
\* the two implicit rules before the build file is loaded.
RegOrder == <<AlwaysRule, FallbackRule>> \o registered

\* When the rule was registered.
RegIndex(rule) == CHOOSE i \in 1..Len(RegOrder) : RegOrder[i] = rule

\* C13: resolve(target) returns a rule that matches the target; no matching
\* rule has a lower priority value, and no matching rule of the same
\* priority was registered earlier.
C13_ResolvePicksBest ==
    resolved.done =>
        /\ Match(resolved.rule, resolved.target).hit
        /\ \A i \in 1..Len(RegOrder) :
              Match(RegOrder[i], resolved.target).hit =>
                  \/ PRIORITY(resolved.rule) < PRIORITY(RegOrder[i])
                  \/ /\ PRIORITY(resolved.rule) = PRIORITY(RegOrder[i])
                     /\ RegIndex(resolved.rule) <= i

\* A pattern was registered first, then two target rules of the file f:
\* resolve("f") returned the target rule registered first of the two.
C13_Witness ==
    /\ resolved.done
    /\ resolved.target = F
    /\ registered = <<PatternRule({"f"}, <<>>), TargetRule(<<"d", "..", "f">>, <<>>),
                      TargetRule(F, <<>>)>>
    /\ resolved.rule = TargetRule(<<"d", "..", "f">>, <<>>)

(***************************************************************************)
(* C14  Canonical equivalence of resolution.                               *)
(***************************************************************************)

\* Two strings that normalise to the same canonical file path.
SameFilepath(a, b) ==
    /\ normalize_path(a).ok
    /\ normalize_path(b).ok
    /\ normalize_path(a).path = normalize_path(b).path

\* The string is "always" or the name of a registered virtual rule.
VirtualName(t) ==
    \E i \in 1..Len(rules) : rules[i].kind \in {"always", "virtual"} /\ rules[i].name = t

\* C14 as stated: two spellings of one canonical file path resolve to the
\* same rule, whatever rules are registered.
C14_SameFilepathSameRule ==
    resolved.done =>
        \A b \in Spellings :
            SameFilepath(resolved.target, b)
                => rules[resolve(rules, b).rule] = resolved.rule

\* C14 amended: two spellings of one canonical file path, neither of which
\* is "always" or the name of a registered virtual rule, resolve to the same
\* rule.
C14_FileSpellingsSameRule ==
    resolved.done =>
        \A b \in Spellings :
            (/\ SameFilepath(resolved.target, b)
             /\ ~VirtualName(resolved.target)
             /\ ~VirtualName(b))
                => rules[resolve(rules, b).rule] = resolved.rule

\* "d/../f" was resolved to the target rule declared for "f", while a
\* virtual rule named "./f" is registered.
C14_Witness ==
    /\ resolved.done
    /\ resolved.target = <<"d", "..", "f">>
    /\ resolved.rule = TargetRule(F, <<>>)
    /\ \E i \in 1..Len(registered) : registered[i] = VirtualRule(DotF, <<>>)

(***************************************************************************)
(* C15  Virtual names are matched literally.                               *)
(***************************************************************************)

\* The registered virtual rules of that name, by when they were registered.
VirtualsNamed(name) ==
    {i \in 1..Len(registered) :
        registered[i].kind = "virtual" /\ registered[i].name = name}

\* "./NAME"
DotSlash(name) == <<".">> \o name

\* C15 as stated: once a virtual rule named NAME is registered, resolve(NAME)
\* returns a virtual rule of that name, and resolve("./NAME") does not.
C15_VirtualNameLiteral ==
    resolved.done =>
        /\ VirtualsNamed(resolved.target) # {}
              => (resolved.rule.kind = "virtual" /\ resolved.rule.name = resolved.target)
        /\ \A i \in 1..Len(registered) :
              (registered[i].kind = "virtual"
                 /\ resolved.target = DotSlash(registered[i].name))
                    => resolved.rule # registered[i]

\* C15 amended: once a virtual rule named NAME, other than "always", is
\* registered, resolve(NAME) returns the virtual rule of that name that was
\* registered first, and resolve("./NAME") returns no virtual rule named
\* NAME.
C15_VirtualNameButAlways ==
    resolved.done =>
        /\ (VirtualsNamed(resolved.target) # {} /\ resolved.target # AlwaysName)
              => \E i \in VirtualsNamed(resolved.target) :
                    /\ resolved.rule = registered[i]
                    /\ \A j \in VirtualsNamed(resolved.target) : i <= j
        /\ \A i \in 1..Len(registered) :
              (registered[i].kind = "virtual"
                 /\ resolved.target = DotSlash(registered[i].name))
                    => ~(resolved.rule.kind = "virtual"
                           /\ resolved.rule.name = registered[i].name)

\* The target rule of the file f was registered before the virtual rule
\* named "f": resolve("f") returned the virtual rule.
C15_Witness ==
    /\ resolved.done
    /\ resolved.target = F
    /\ Len(registered) >= 2
    /\ registered[1] = TargetRule(F, <<>>)
    /\ registered[2] = VirtualRule(F, <<B>>)
    /\ resolved.rule = VirtualRule(F, <<B>>)

(***************************************************************************)
(* The build file is edited between two runs of the engine                 *)
(***************************************************************************)

\* A build file that was built before: a lists ./f as "f" and as "./f",
\* the rule of ./f lists the source file ./g as "g".
RespellPakefile ==
    Pakefile(VirtualRule(A, <<F, DotF>>), VirtualRule(B, <<>>), <<G>>, << <<"g">> >>)

\* The spellings an edit may give to a dep.
DepSpellings == {F, DotF, <<"d", "..", "f">>, G, DotG}

\* The state map update(a) leaves under RespellPakefile when the recipe of
\* ./f wrote content and the recipe of a returned value.
BuiltData(content, value) ==
    save_result(
        save_result(
            save_result(NoData, DotG, <<>>, Sha("c1")),
            DotF, SetInput(<<>>, G, Sha("c1")), Sha(content)),
        A, SetInput(SetInput(<<>>, F, Sha(content)), DotF, Sha(content)), value)

BuiltFiles(content) ==
    [p \in {DotF, DotG, DotP} |->
        CASE p = DotG -> "c1" [] p = DotF -> content [] OTHER -> Missing]

\* update(a) was run to its end under RespellPakefile and the engine left.
RespellInit ==
    /\ rules = RegisterAll(RegistryInit, RespellPakefile)
    /\ \E content \in Contents, value \in VirtualValues :
          /\ files = BuiltFiles(content)
          /\ disk = JsonData(BuiltData(content, value))
    /\ proc = "down"
    /\ data = NoData
    /\ stack = <<>>
    /\ outcome = NoOutcome
    /\ log = <<>>
    /\ nonce = 0
    /\ updates = 0
    /\ touches = 0
    /\ request = NoRequest
    /\ lastOk = NoLast
    /\ NoHost
    /\ NoRegistered

\* deps with every a replaced by b.
Replace(deps, a, b) == [k \in 1..Len(deps) |-> IF deps[k] = a THEN b ELSE deps[k]]

\* Somebody edits the build file between two runs of the engine: rule i
\* lists b where it listed a, two spellings of one canonical target.  The
\* engine that loads the edited build file has made no call yet.
Respell(i, a, b) ==
    /\ proc = "down"
    /\ updates < MaxUpdates
    /\ touches < MaxTouches
    /\ rules[i].kind \in {"virtual", "target"}
    /\ \E k \in 1..Len(rules[i].deps) : rules[i].deps[k] = a
    /\ a # b
    /\ Canon(a) = Canon(b)
    /\ rules' = [rules EXCEPT ![i].deps = Replace(@, a, b)]
    /\ touches' = touches + 1
    /\ lastOk' = NoLast
    /\ log' = <<>>
    /\ request' = NoRequest
    /\ outcome' = NoOutcome
    /\ UNCHANGED <<lockvars, regvars, files, disk, proc, data, stack, nonce, updates>>

\* The recipes succeed and no file is edited; only the build file is.
RespellNext ==
    \/ \E i \in 1..Len(rules), a \in DepSpellings, b \in DepSpellings : Respell(i, a, b)
    \/ Start
    \/ \E target \in {A, F} : Update(target, FALSE)
    \/ UpdateDep
    \/ Skip
    \/ RunFallback
    \/ \E value \in VirtualValues : RunVirtual(value)
    \/ \E content \in Contents \cup {Missing} : RunFile(content)
    \/ Exit

RespellSpec == RespellInit /\ [][RespellNext]_vars

(***************************************************************************)
(* C16  Verbatim dependency keys.                                          *)
(***************************************************************************)

\* The dep strings a rule declares for the activation the entry belongs to.
DeclaredAt(p) == {DepsAt(p)[k] : k \in 1..Len(DepsAt(p))}

\* C16: every record saved for a declared rule is keyed by the dep strings
\* exactly as the rule declares them; a target an update returned from is
\* recorded under the spellings declared now, so a target whose record was
\* keyed by a replaced spelling was run; it was run once; and the update
\* that repeats that update runs no declared rule.
C16_VerbatimKeys ==
    /\ \A i \in 1..Len(log) :
          (log[i].ev = "save" /\ UserRule(log[i].rule))
              => DOMAIN log[i].inputs = DeclaredAt(i)
    /\ \A p \in Returns :
          /\ log[p].target \in DOMAIN disk
          /\ DOMAIN disk[log[p].target].inputs = DeclaredAt(p)
          /\ Cardinality({i \in Runs : log[i].target = log[p].target}) <= 1
    /\ Repeated => \A i \in Runs : ~UserRule(log[i].rule)

\* a listed "f" and "./f" when it was built; the build file was edited, a
\* was updated and run under the new spelling, and the update that repeats
\* it has returned without running a.
C16_Witness ==
    /\ touches = 1
    /\ proc = "idle"
    /\ Repeated
    /\ request.target = A
    /\ outcome.status = "ok"
    /\ \A i \in Runs : log[i].target # A
    /\ A \in DOMAIN disk
    /\ DOMAIN disk[A].inputs = {<<"d", "..", "f">>, DotF}

(***************************************************************************)
(* Build files with a group (rules.py, group)                              *)
(***************************************************************************)

Grp == <<"grp">>

\* The dep lists the group is declared over: a virtual name, a file path as
\* the state map spells it, a file path spelled otherwise, a source file.
GroupDeps == {<<B>>, <<DotF>>, <<F>>, <<G>>, <<B, DotG>>}

\* a depends on the group; b and ./f depend on the source file ./g.
GroupPakefile(deps) ==
    <<VirtualRule(A, <<Grp>>), VirtualRule(B, <<G>>), TargetRule(F, <<G>>),
      group(Grp, deps)>>

GroupInit ==
    /\ rules \in {RegisterAll(RegistryInit, GroupPakefile(deps)) : deps \in GroupDeps}
    /\ files = [p \in {DotF, DotG, DotP} |-> IF p = DotG THEN "c1" ELSE Missing]
    /\ disk = NoData
    /\ proc = "down"
    /\ data = NoData
    /\ stack = <<>>
    /\ outcome = NoOutcome
    /\ log = <<>>
    /\ nonce = 0
    /\ updates = 0
    /\ touches = 0
    /\ request = NoRequest
    /\ lastOk = NoLast
    /\ NoHost
    /\ NoRegistered

GroupNext ==
    \/ Start
    \/ \E target \in {A, Grp} : Update(target, FALSE)
    \/ UpdateDep
    \/ Skip
    \/ RunFallback
    \/ \E value \in VirtualValues : RunVirtual(value)
    \/ \E content \in Contents \cup {Missing} : RunFile(content)
    \/ RunGroup
    \/ Exit
    \/ \E path \in {DotF, DotG}, content \in Contents : Touch(path, content)

GroupSpec == GroupInit /\ [][GroupNext]_vars

(***************************************************************************)
(* C17  Group propagates changes.                                          *)
(***************************************************************************)

\* The entry belongs to an activation of a group.
IsGroup(i) == rules[log[i].rule].recipe = "collect_dep_results"

\* The recipe of a group ran in the current call because a result the
\* group has on record for one of its deps is not the dep's result now.
GroupDepChanged ==
    \E i \in Runs : IsGroup(i) /\ log[i].cached /\ ~log[i].same

\* C17: the result a group saves maps each dep it declares to the result the
\* state map holds for that dep's target (as the state file would hold
\* both); and when the result of one of a
\* group's deps changed since the group was last built, the update runs
\* the rule that depends on the group.
C17_GroupPropagates ==
    /\ \A i \in 1..Len(log) :
          (log[i].ev = "save" /\ IsGroup(i) /\ proc # "down")
              => JsonValue(log[i].result)
                    = JsonValue(Dict([dep \in DeclaredAt(i) |->
                                         get_result(data, Canon(dep))]))
    /\ \A p \in Returns :
          (Grp \in DeclaredAt(p) /\ GroupDepChanged)
              => \E j \in Runs : log[j].target = log[p].target

\* The same for the groups whose deps are all spelled as the state map
\* spells their targets: this holds.
GroupOverRecordedNames ==
    (\A i \in 1..Len(rules) :
        rules[i].recipe = "collect_dep_results"
            => \A k \in 1..Len(rules[i].deps) : Canon(rules[i].deps[k]) = rules[i].deps[k])
    => C17_GroupPropagates

(***************************************************************************)
(* C18  Build-error chain.                                                 *)
(***************************************************************************)

\* The target of the activation that was open at the given depth when the
\* log ended: the last one entered there.
OpenAt(depth) ==
    LET E == {i \in 1..Len(log) : log[i].ev = "enter" /\ log[i].depth = depth}
    IN  log[CHOOSE i \in E : \A j \in E : j <= i].target

\* The log ends with a recipe that raised.
RecipeFailed ==
    Len(log) >= 2 /\ log[Len(log)].ev = "raise" /\ log[Len(log) - 1].ev = "run"

\* C18: when update(T) has raised a BuildError, its chain starts with the
\* canonical target of T, each element lists the next among its deps, the
\* elements before the last are the targets of the activations that were
\* open, outermost first, and the last is the target that failed: the one
\* whose recipe raised, or a canonical target of the rule the failing dep
\* resolved to.
C18_ErrorChain ==
    (request.op = "update" /\ outcome.status = "error") =>
        LET chain == outcome.chain
            n == Len(chain)
            last == log[Len(log)]
        IN  /\ n >= 1
            /\ chain[1] = Canon(request.target)
            /\ \A i \in 1..(n - 1) : chain[i + 1] \in CanonDepsOf(chain[i])
            /\ last.ev = "raise"
            /\ last.depth = n
            /\ \A i \in 1..(n - 1) : chain[i] = OpenAt(i)
            /\ IF RecipeFailed
               THEN chain[n] = log[Len(log) - 1].target
               ELSE /\ Match(rules[last.rule], chain[n]).hit
                    /\ Canon(chain[n]) = chain[n]

\* update("a") with a -> b has failed in the recipe of b with the chain a, b.
C18_Witness ==
    /\ request.op = "update"
    /\ outcome.status = "error"
    /\ RecipeFailed
    /\ outcome.chain = <<A, B>>

(***************************************************************************)
(* C19  Lock contention fails fast without side effects.                   *)
(***************************************************************************)

\* Another engine holds the lock of the file.
HeldByOther(e, file) == file # NoFile /\ inodes[file].lock \notin {Unlocked, e}

\* The step is taken by engine e and leaves every file, the state path and
\* every other engine as they were.
OwnStepOnly(e) ==
    /\ inodes' = inodes
    /\ statepath' = statepath
    /\ \A o \in Engines \ {e} : engines'[o] = engines[o]

\* C19: an engine that opens the state path while another engine holds its
\* lock gets the file the path names and changes nothing (or its process
\* ends); its flock of a
\* file another engine holds locked goes straight to the PakeError, with
\* no file, no path and no other engine changed; and after the PakeError
\* the engine does nothing but end: it does not go round the loop again.
C19_ContentionFailsFast ==
    [][\A e \in Engines :
          /\ (engines[e].pc \in {"new", "retry"} /\ HeldByOther(e, statepath)
                /\ engines'[e] # engines[e])
                => /\ OwnStepOnly(e)
                   /\ \/ engines'[e].pc = "dead"
                      \/ engines'[e].pc = "opened" /\ engines'[e].file = statepath
          /\ (engines[e].pc = "opened" /\ HeldByOther(e, engines[e].file)
                /\ engines'[e] # engines[e])
                => (OwnStepOnly(e) /\ engines'[e].pc \in {"locked_error", "dead"})
          /\ engines[e].pc = "locked_error"
                => engines'[e].pc \in {"locked_error", "dead"}]_vars

\* Engine 1 has saved once and holds the lock of the state file; engine 2
\* met the lock and has raised the PakeError; the file holds what engine 1
\* saved.
C19_Witness ==
    /\ engines[1].pc = "ready"
    /\ engines[1].saves = 1
    /\ inodes[statepath].lock = 1
    /\ inodes[statepath].content = Content(1, "full")
    /\ engines[2].pc = "locked_error"

(***************************************************************************)
(* C20  get_deps is read-only.                                             *)
(***************************************************************************)

\* No chain of deps in the build files of the model is longer than this.
MaxDepth == 6

\* The tree of a target string, by the deps of the rule it resolves to,
\* n levels deep.
RECURSIVE TreeOf(_, _)
TreeOf(t, n) ==
    IF n = 0 THEN NoTree ELSE [dep \in DepsOf(t) |-> TreeOf(dep, n - 1)]

\* The deps of the rule the target string resolves to can be determined.
DepsKnown(t) ==
    LET r == resolve(rules, t) IN Deps(rules[r.rule], r.match).ok

\* get_deps of the target string has to succeed: nothing it reaches is on
\* a cycle or has deps that cannot be determined.
TreeExists(t) ==
    \A x \in {t} \cup Reach(DepsOf(t)) : ~OnCycle(x) /\ DepsKnown(x)

\* update has ended as get_deps of the same target would, given as g: it
\* fails when get_deps fails, and unless a recipe raised it fails only then
\* and with the same chain and message.
UpdateFailsAs(g) ==
    /\ ~g.ok => outcome.status = "error"
    /\ (outcome.status = "error" /\ ~RecipeFailed)
          => (~g.ok /\ outcome.chain = g.chain /\ outcome.message = g.message)

\* C20: a call of get_deps leaves the state map, the state file and the
\* working directory as they are and runs no recipe; it succeeds exactly
\* when the target reaches no cycle and no deps that cannot be determined,
\* and then returns the nested tree of the declared deps; and update stops
\* on the same error as get_deps does.
C20_GetDepsReadOnly ==
    /\ [][(request.op # "get_deps" /\ request'.op = "get_deps")
            => /\ data' = data
               /\ disk' = disk
               /\ files' = files
               /\ \A i \in 1..Len(log') : log'[i].ev # "run"]_vars
    /\ [](request.op = "get_deps"
            => /\ outcome.status = "ok" <=> TreeExists(request.target)
               /\ outcome.status = "ok"
                    => outcome.tree = [t \in {request.target} |->
                                          TreeOf(request.target, MaxDepth)])
    /\ []((Finished /\ request.op = "update")
            => UpdateFailsAs(DepsBelow(resolve(rules, request.target), <<>>)))

\* update("a") has built a, whose deps are g and b, b listing always; then
\* get_deps("a") has returned the tree {a: {g: {}, b: {always: {}}}}.
C20_Witness ==
    /\ request.op = "get_deps"
    /\ request.target = A
    /\ outcome.status = "ok"
    /\ A \in DOMAIN data
    /\ DOMAIN outcome.tree[A] = {G, B}
    /\ DOMAIN outcome.tree[A][B] = {AlwaysName}
    /\ outcome.tree[A][G] = NoTree

(***************************************************************************)
(* C21  File self-check.                                                   *)
(***************************************************************************)

\* The step is one in which the activation on top returns the recorded
\* result without running: one "return" entry is added to the log.
SkipStep ==
    /\ proc = "updating"
    /\ stack # <<>>
    /\ Len(log') = Len(log) + 1
    /\ log'[Len(log')].ev = "return"

FileKinds == {"target", "pattern"}

\* C21: an activation of a file rule returns without running its recipe
\* only if its file exists and hashes to the recorded result (and the
\* collected inputs are the recorded ones); and a recipe of a file rule
\* that has a record, the recorded inputs and a file that hashes to the
\* recorded result is run only when the update is forced.
C21_FileSelfCheck ==
    /\ [][(SkipStep /\ rules[Top.rule].kind \in FileKinds)
            => /\ Top.target \in DOMAIN data
               /\ data[Top.target].inputs = Top.inputs
               /\ hash_file(files, Top.target).found
               /\ hash_file(files, Top.target).hash = data[Top.target].result]_vars
    /\ [](\A i \in Runs :
            (rules[log[i].rule].kind \in FileKinds /\ log[i].cached /\ log[i].same
                /\ ~log[i].stale) => log[i].force)

\* The file of ./f was edited or deleted from outside after ./f was built,
\* and an update that is not forced and collected the recorded inputs has
\* run the recipe of ./f again.
C21_Witness ==
    /\ touches = 1
    /\ \E i \in Runs :
          /\ log[i].target = DotF
          /\ rules[log[i].rule].kind = "target"
          /\ log[i].cached
          /\ log[i].same
          /\ log[i].stale
          /\ ~log[i].force

(***************************************************************************)
(* C22  Missing output is an error.                                        *)
(***************************************************************************)

NotCreated == "Recipe ran successfully but did not create the file"

\* C22: when the recipe of a file rule has returned and the target file
\* does not exist, the update fails at once with a BuildError that carries
\* the chain down to the target, the message of the RuleError and no cause,
\* and the state map and the state file stay as they were; and no record a
\* file rule saves is without the hash of its file.
C22_MissingOutputFails ==
    /\ [][((\E content \in Contents \cup {Missing} : RunFile(content))
              /\ ~hash_file(files', Top.target).found)
            => /\ proc' = "failed"
               /\ outcome'.status = "error"
               /\ outcome'.message = NotCreated
               /\ ~outcome'.cause
               /\ outcome'.chain = Top.chain
               /\ data' = data
               /\ disk' = disk]_vars
    /\ [](\A i \in 1..Len(log) :
            (log[i].ev = "save" /\ rules[log[i].rule].kind \in FileKinds)
                => log[i].result.tag = "sha256")

\* ./f was built, its file was deleted from outside, and the recipe run
\* again did not create it: the update has failed and the record of ./f
\* still holds a hash.
C22_Witness ==
    /\ touches = 1
    /\ RecipeFailed
    /\ outcome.message = NotCreated
    /\ log[Len(log)].target = DotF
    /\ DotF \in DOMAIN disk
    /\ disk[DotF].result.tag = "sha256"
    /\ files[DotF] = Missing

(***************************************************************************)
(* Targets only the fallback matches (rules.py, FallbackRule)              *)
(***************************************************************************)

\* A build file with one virtual rule, whose deps are a source file and a
\* string that is no path under the working directory.
FallbackPakefile == <<VirtualRule(A, <<G, <<"..", "g">>>>), VirtualRule(B, <<F>>)>>

\* The strings asked for: spellings of the source file ./g, the file ./f
\* that may not exist, a path outside the working directory, the empty
\* string, and the two virtual targets.
FallbackRequests == {G, <<"d", "..", "g">>, F, <<"..", "g">>, <<>>, A, B}

FallbackInit ==
    /\ rules = RegisterAll(RegistryInit, FallbackPakefile)
    /\ files = [p \in {DotF, DotG, DotP} |-> IF p = DotG THEN "c1" ELSE Missing]
    /\ disk = NoData
    /\ proc = "down"
    /\ data = NoData
    /\ stack = <<>>
    /\ outcome = NoOutcome
    /\ log = <<>>
    /\ nonce = 0
    /\ updates = 0
    /\ touches = 0
    /\ request = NoRequest
    /\ lastOk = NoLast
    /\ NoHost
    /\ NoRegistered

FallbackNext ==
    \/ Start
    \/ \E target \in FallbackRequests, force \in BOOLEAN : Update(target, force)
    \/ UpdateDep
    \/ Skip
    \/ RunFallback
    \/ \E value \in VirtualValues : RunVirtual(value)
    \/ Exit
    \/ \E path \in {DotF, DotG}, content \in Contents \cup {Missing} :
          Touch(path, content)

FallbackSpec == FallbackInit /\ [][FallbackNext]_vars

(***************************************************************************)
(* C23  Fallback outcome.                                                  *)
(***************************************************************************)

\* The string is a path under the working directory.
ValidPath(t) == normalize_path(t).ok

\* The file exists.
Exists(t) == t \in DOMAIN files /\ files[t] # Missing

\* C23: when the fallback is run for a target that is a valid path to a
\* file that exists, the activation returns the hash of the file and
\* records it; when the path is malformed or the file is missing, the
\* update fails with a BuildError that has the chain, a message and no
\* cause, and nothing is recorded; and no activation of the fallback
\* returns without having run.
C23_FallbackOutcome ==
    /\ [][RunFallback =>
            IF ValidPath(Top.target) /\ Exists(Top.target)
            THEN /\ log'[Len(log')].ev = "return"
                 /\ log'[Len(log')].result = Sha(files[Top.target])
                 /\ Top.target \in DOMAIN data'
                 /\ data'[Top.target].result = Sha(files[Top.target])
            ELSE /\ proc' = "failed"
                 /\ outcome'.status = "error"
                 /\ outcome'.message # ""
                 /\ ~outcome'.cause
                 /\ outcome'.chain = Top.chain
                 /\ data' = data
                 /\ disk' = disk]_vars
    /\ [](\A p \in 1..Len(log) :
            (log[p].ev = "return" /\ rules[log[p].rule].kind = "fallback")
                => ReturnedAfterRun(p))

\* update("g") was repeated with nothing changed and nothing forced, and
\* the fallback, which had a record with the same inputs and the same hash,
\* was run again and returned the hash.
C23_Witness ==
    /\ Repeated
    /\ request.target = G
    /\ outcome.status = "ok"
    /\ outcome.result = Sha("c1")
    /\ \E i \in Runs : log[i].target = DotG /\ log[i].cached /\ log[i].same
                          /\ ~log[i].stale

(***************************************************************************)
(* C24  Lock-follows-path invariant.                                       *)
(***************************************************************************)

\* Engine e holds the lock of the file.
Holds(e, file) == file # NoFile /\ inodes[file].lock = e

\* C24: an engine that has left the loop of State.__init__ and is alive
\* holds the lock of the file the state path names, at every step: up to
\* the rename that file is self.file; once the new file is locked the
\* engine holds both locks, and it still holds both after the rename, when
\* the path names the new file.  And an engine that has locked a file the
\* path does not name goes nowhere but round the loop, with that lock
\* released, or ends.
C24_LockFollowsPath ==
    /\ [](\A e \in Engines :
            /\ (engines[e].pc = "checked" \/ Constructed(e)) => Holds(e, statepath)
            /\ engines[e].pc \in {"checked", "ready", "save_opened", "save_written",
                                  "save_flushed", "save_locked"}
                  => statepath = engines[e].file
            /\ engines[e].pc \in {"save_locked", "save_renamed"}
                  => (Holds(e, engines[e].file) /\ Holds(e, engines[e].new_file))
            /\ engines[e].pc = "save_renamed" => statepath = engines[e].new_file)
    /\ [][\A e \in Engines :
            (engines[e].pc = "locked" /\ engines[e].file # statepath
                /\ engines'[e] # engines[e])
                => /\ engines'[e].pc \in {"retry", "dead"}
                   /\ engines'[e].file = NoFile
                   /\ ~Holds(e, engines[e].file)']_vars

\* Engine 2 locked a file the path no longer named and has closed it to go
\* round again; engine 1, in its second save, holds the lock of the file
\* the path names and that of the new file it is about to rename.
C24_Witness ==
    /\ engines[2].pc = "retry"
    /\ engines[1].pc = "save_locked"
    /\ engines[1].saves = 1
    /\ Holds(1, statepath)
    /\ Holds(1, engines[1].new_file)
    /\ engines[1].new_file # statepath

(***************************************************************************)
(* C25  The rule list is sorted by priority, ties in registration order.   *)
(***************************************************************************)

\* C25: the rule list holds the rules that were registered, each once; no
\* rule comes before a rule of lower priority value; and of two rules of
\* equal priority the one registered first comes first.
C25_SortedStable ==
    /\ Len(rules) = Len(RegOrder)
    /\ \A k \in 1..Len(RegOrder) : \E i \in 1..Len(rules) : rules[i] = RegOrder[k]
    /\ \A i, j \in 1..Len(rules) :
          i < j => /\ PRIORITY(rules[i]) <= PRIORITY(rules[j])
                   /\ PRIORITY(rules[i]) = PRIORITY(rules[j])
                         => RegIndex(rules[i]) < RegIndex(rules[j])

\* A pattern rule, then a virtual rule, then two target rules were
\* registered: the list holds the virtual rule, the target rules in their
\* order, then the pattern rule, between the two implicit rules.
C25_Witness ==
    /\ registered = <<PatternRule({"f"}, <<>>), TargetRule(F, <<>>),
                      VirtualRule(F, <<>>)>>
    /\ rules = <<AlwaysRule, VirtualRule(F, <<>>), TargetRule(F, <<>>),
                 PatternRule({"f"}, <<>>), FallbackRule>>

(***************************************************************************)
(* C26  The implicit rules are fixed.                                      *)
(***************************************************************************)

\* Strings the fallback cannot normalise.
BadStrings == {<<>>, <<NUL>>, <<"..", "f">>}

\* C26: whatever was registered, the always rule is the first rule of the
\* list and the fallback the last, each there once; every string is matched
\* by some rule of the list; and resolve("always") has returned the always
\* rule, any other call a rule that matches.
C26_ImplicitRulesFixed ==
    /\ rules[1] = AlwaysRule
    /\ rules[Len(rules)] = FallbackRule
    /\ \A i \in 2..(Len(rules) - 1) : rules[i].kind \notin {"always", "fallback"}
    /\ \A t \in Spellings \cup BadStrings :
          /\ \E i \in 1..Len(rules) : Match(rules[i], t).hit
          /\ t = AlwaysName <=> resolve(rules, t).rule = 1
    /\ resolved.done
          => /\ Match(resolved.rule, resolved.target).hit
             /\ resolved.target = AlwaysName => resolved.rule = AlwaysRule

\* A virtual rule named "always" and a pattern rule were registered, and
\* resolve("always") has returned the always rule.
C26_Witness ==
    /\ registered = <<VirtualRule(AlwaysName, <<>>), PatternRule({"f", "p"}, <<>>)>>
    /\ resolved.done
    /\ resolved.target = AlwaysName
    /\ resolved.rule = AlwaysRule
    /\ Len(rules) = 4

(***************************************************************************)
(* Registry.needs_update on its own (registry.py 145-162)                  *)
(***************************************************************************)

\* The inputs mappings of the calls: every mapping from some of these keys
\* to these results.
InputKeys == {AlwaysName, B}
InputValues == {Nonce(1), Nonce(2), Str("v1")}
InputMaps == UNION {[K -> InputValues] : K \in SUBSET InputKeys}

\* The state maps of the calls: empty, or with a record for a.
RecordedMaps ==
    {NoData} \cup {save_result(NoData, A, m, Str("v1")) : m \in InputMaps}

NeedsInit ==
    /\ rules = RegistryInit
    /\ files = [p \in {DotF, DotG, DotP} |-> Missing]
    /\ disk = NoData
    /\ proc = "idle"
    /\ data \in RecordedMaps
    /\ stack = <<>>
    /\ outcome = NoOutcome
    /\ log = <<>>
    /\ nonce = 0
    /\ updates = 0
    /\ touches = 0
    /\ request = NoRequest
    /\ lastOk = NoLast
    /\ NoHost
    /\ NoRegistered

\* A call registry.needs_update(target, inputs): the log holds the call,
\* outcome.message the reason returned ("" for None).
NeedsUpdate(target, inputs) ==
    /\ request' = [NoRequest EXCEPT !.op = "needs_update", !.target = target]
    /\ log' = <<[Event("needs_update", target, 0, 0) EXCEPT
                    !.cached = target \in DOMAIN data, !.inputs = inputs]>>
    /\ outcome' = [NoOutcome EXCEPT !.status = "ok",
                                    !.message = needs_update(data, target, inputs)]
    /\ UNCHANGED <<lockvars, regvars, rules, files, disk, proc, data, stack, nonce,
                   updates, touches, lastOk>>

NeedsNext == \E target \in {A, B}, inputs \in InputMaps : NeedsUpdate(target, inputs)

NeedsSpec == NeedsInit /\ [][NeedsNext]_vars

(***************************************************************************)
(* C27  needs_update reports the always dependency.                        *)
(***************************************************************************)

DependsOnAlways == "it depends on the always target"

\* needs_update was called for a target that has a record, with inputs
\* that have "always" as a key.
CalledWithAlways ==
    /\ request.op = "needs_update"
    /\ log[1].cached
    /\ AlwaysName \in DOMAIN log[1].inputs

\* C27 as stated: for a target with a record and inputs that have "always"
\* as a key, needs_update returns the "depends on always" reason.
C27_AlwaysKeyReported ==
    CalledWithAlways => outcome.message = DependsOnAlways

\* C27 amended: for a target with a record and inputs that have "always" as
\* a key, needs_update returns the "depends on always" reason when the
\* inputs differ from the recorded ones, and no reason when they are equal.
C27_AlwaysKeyReportedIfChanged ==
    CalledWithAlways =>
        IF log[1].inputs = data[request.target].inputs
        THEN outcome.message = ""
        ELSE outcome.message = DependsOnAlways

\* The record of a has the inputs {always: nonce 1}, the call gave
\* {always: nonce 2, b: v1}: the reason is "depends on always", not the
\* changed list of deps.
C27_Witness ==
    /\ CalledWithAlways
    /\ request.target = A
    /\ data[A].inputs = [k \in {AlwaysName} |-> Nonce(1)]
    /\ log[1].inputs = [k \in {AlwaysName, B} |-> IF k = B THEN Str("v1") ELSE Nonce(2)]
    /\ outcome.message = DependsOnAlways

(***************************************************************************)
(* C28  Unwinding on failure.                                              *)
(***************************************************************************)

\* C28: when a call has failed no activation is left, and the log of an
\* update ends with the error: nothing was entered, run or saved after it;
\* the step that fails writes nothing to the state map or the state file;
\* and once a call has failed the engine does nothing but exit, with the
\* state file, the working directory and the log as they were.
C28_UnwindsOnFailure ==
    /\ [](proc = "failed"
            => /\ stack = <<>>
               /\ request.op = "update"
                     => (log # <<>> /\ log[Len(log)].ev = "raise"))
    /\ [](\A i \in 1..Len(log) : log[i].ev = "raise" => i = Len(log))
    /\ [][(proc # "failed" /\ proc' = "failed")
            => (disk' = disk /\ data' = data)]_vars
    /\ [][proc = "failed"
            => /\ proc' = "down"
               /\ disk' = disk
               /\ files' = files
               /\ log' = log
               /\ outcome' = outcome
               /\ updates' = updates]_vars

\* a lists b, then f; the recipe of b raised: the update has failed, f was
\* never entered and a was never run.
C28_Witness ==
    /\ proc = "failed"
    /\ RecipeFailed
    /\ outcome.chain = <<A, B>>
    /\ DepsOf(A) = {B, F}
    /\ \A i \in 1..Len(log) : log[i].target # DotF
    /\ \A i \in Runs : log[i].target # A

(***************************************************************************)
(* C29  At most one run per target in one update.                          *)
(*                                                                         *)
(* Build files where b is reached from a along two paths, directly and     *)
(* through f, and b is declared with always(): a lists b then f, or f then *)
(* b.                                                                      *)
(***************************************************************************)

DiamondPakefile(deps) == <<VirtualRule(A, deps), always(B, <<>>), TargetRule(F, <<B>>)>>

DiamondInit ==
    /\ rules \in {RegisterAll(RegistryInit, DiamondPakefile(deps)) :
                     deps \in {<<B, F>>, <<F, B>>}}
    /\ files = [p \in {DotF, DotG, DotP} |-> IF p = DotG THEN "c1" ELSE Missing]
    /\ disk = NoData
    /\ proc = "down"
    /\ data = NoData
    /\ stack = <<>>
    /\ outcome = NoOutcome
    /\ log = <<>>
    /\ nonce = 0
    /\ updates = 0
    /\ touches = 0
    /\ request = NoRequest
    /\ lastOk = NoLast
    /\ NoHost
    /\ NoRegistered

DiamondNext ==
    \/ Start
    \/ \E target \in {A, F}, force \in BOOLEAN : Update(target, force)
    \/ UpdateDep
    \/ Skip
    \/ RunAlways
    \/ \E value \in VirtualValues : RunVirtual(value)
    \/ \E content \in Contents : RunFile(content)
    \/ Exit

DiamondSpec == DiamondInit /\ [][DiamondNext]_vars

\* C29: in an update that was not forced, no target of a rule the build file
\* declared is run twice.
C29_RunsOnce ==
    (request.op = "update" /\ ~request.force)
        => \A i, j \in Runs :
              (UserRule(log[i].rule) /\ log[i].target = log[j].target)
                  => i = j

(***************************************************************************)
(* C30  Recorded inputs agree with recorded results.                       *)
(***************************************************************************)

\* The targets entered during the call the log is of.
Visited == {log[i].target : i \in {j \in 1..Len(log) : log[j].ev = "enter"}}

\* The record of x holds, under each dep of x as the rule spells it, the
\* result the state map now holds for the target the dep resolves to.
InputsAgree(x) ==
    /\ x \in DOMAIN data
    /\ \A d \in DepsOf(x) :
          /\ d \in DOMAIN data[x].inputs
          /\ Canon(d) \in DOMAIN data
          /\ data[x].inputs[d] = data[Canon(d)].result

\* C30: when an update has returned, the record of every target visited
\* during it holds, for every dep, the result now recorded for that dep.
C30_InputsAgree ==
    (request.op = "update" /\ proc = "idle" /\ outcome.status = "ok")
        => \A x \in Visited : InputsAgree(x)

(***************************************************************************)
(* C31  No false cycles.                                                   *)
(***************************************************************************)

\* C31: an update or a get_deps that ends with the cycle error was asked for
\* a target from which some target that depends on itself is reached, and
\* the chain of the error ends in such a target; so a target reached along
\* two paths, none of which comes back to it, raises no cycle error.
C31_NoFalseCycle ==
    (request.op \in {"update", "get_deps"} /\ CycleError)
        => \E x \in Reach({request.target}) :
              /\ OnCycle(x)
              /\ Canon(x) = outcome.chain[Len(outcome.chain)]

\* update(a) has returned; b was entered twice, as a dep of a and as a dep
\* of f, and no target reached from a depends on itself.
C31_Witness ==
    /\ request.op = "update"
    /\ request.target = A
    /\ proc = "idle"
    /\ outcome.status = "ok"
    /\ \E i, j \in 1..Len(log) :
          /\ i < j
          /\ log[i].ev = "enter" /\ log[i].target = B /\ log[i].depth = 2
          /\ log[j].ev = "enter" /\ log[j].target = B /\ log[j].depth = 3
    /\ \A x \in Reach({A}) : ~OnCycle(x)

(***************************************************************************)
(* C32  A rejected declaration.                                            *)
(*                                                                         *)
(* TargetRule.__init__ (rules.py 312-319) calls Rule.__init__ first, which *)
(* registers the rule, and normalises the filepath after that.             *)
(***************************************************************************)

\* The rule object Rule.__init__ has registered when normalize_path raises:
\* it has its name and its recipe, filepath and _deps were never assigned.
HalfBuiltTargetRule(filepath) ==
    [kind |-> "target", name |-> filepath, filepath |-> <<>>, alts |-> {},
     deps |-> <<>>, recipe |-> "user"]

\* The filepaths target rules are declared with: two spellings of ./f, the
\* empty string, a NUL byte, and a path outside the working directory.
DeclaredPaths == {F, <<"d", "..", "f">>, <<>>, <<NUL>>, <<"..", "f">>}

\* TargetRule(registry, recipe, filepath, deps): the declaration of a
\* target-file rule by the build file, which returns the rule or raises
\* ValueError.
DeclareTarget(filepath, deps) ==
    LET n == normalize_path(filepath)
        rule == IF n.ok THEN TargetRule(filepath, deps)
                        ELSE HalfBuiltTargetRule(filepath)
    IN  /\ Len(rules) < MaxRules + 2
        /\ \A i \in 1..Len(rules) : rules[i] # rule
        /\ rules' = register(rules, rule)
        /\ registered' = IF n.ok THEN Append(registered, rule) ELSE registered
        /\ request' = [NoRequest EXCEPT !.op = "TargetRule", !.target = filepath]
        /\ outcome' = IF n.ok
                      THEN [NoOutcome EXCEPT !.status = "ok"]
                      ELSE [NoOutcome EXCEPT !.status = "ValueError",
                               !.message = "Invalid filepath for target rule"]
        /\ UNCHANGED <<files, disk, proc, data, stack, log, nonce, updates,
                       touches, lastOk, resolved, lockvars>>

DeclareNext ==
    \/ \E rule \in {VirtualRule(F, <<>>), PatternRule({"f"}, <<>>)} : Register(rule)
    \/ \E filepath \in DeclaredPaths, deps \in {<<>>, <<B>>} : DeclareTarget(filepath, deps)

DeclareSpec == ResolveInit /\ [][DeclareNext]_vars

\* C32: a declaration of a target-file rule with a filepath that cannot be
\* normalised raises, and leaves the rule list as it was.
C32_RejectedDeclarationNoEffect ==
    [][\A filepath \in DeclaredPaths, deps \in {<<>>, <<B>>} :
          (DeclareTarget(filepath, deps) /\ ~normalize_path(filepath).ok)
              => /\ outcome'.status = "ValueError"
                 /\ rules' = rules]_vars

\* The half of C32 the code keeps: such a declaration raises.
RejectedDeclarationRaises ==
    [][\A filepath \in DeclaredPaths, deps \in {<<>>, <<B>>} :
          (DeclareTarget(filepath, deps) /\ ~normalize_path(filepath).ok)
              => outcome'.status = "ValueError"]_vars

(***************************************************************************)
(* C33  The update driver terminates.                                      *)
(*                                                                         *)
(* Build files of virtual and target-file rules only: a cycle a -> b -> a  *)
(* with f above it, a diamond, and a diamond over always and a source      *)
(* file.  The interpreter goes on to the next statement of Rule.update and *)
(* every recipe comes back, by returning or by raising: weak fairness of   *)
(* the driver's steps.                                                     *)
(***************************************************************************)

TermPakefiles ==
    { <<VirtualRule(A, <<B>>), VirtualRule(B, <<A>>), TargetRule(F, <<A>>)>>,
      <<VirtualRule(A, <<B, F>>), VirtualRule(B, <<>>), TargetRule(F, <<B>>)>>,
      <<VirtualRule(A, <<F, G>>), always(B, <<>>), TargetRule(F, <<B, G>>)>> }

TermInit ==
    /\ rules \in {RegisterAll(RegistryInit, pf) : pf \in TermPakefiles}
    /\ files = [p \in {DotF, DotG, DotP} |-> IF p = DotG THEN "c1" ELSE Missing]
    /\ disk = NoData
    /\ proc = "down"
    /\ data = NoData
    /\ stack = <<>>
    /\ outcome = NoOutcome
    /\ log = <<>>
    /\ nonce = 0
    /\ updates = 0
    /\ touches = 0
    /\ request = NoRequest
    /\ lastOk = NoLast
    /\ NoHost
    /\ NoRegistered

\* One step of Rule.update below the call main made.
DriverStep ==
    \/ UpdateDep
    \/ Skip
    \/ RunAlways
    \/ RunFallback
    \/ \E value \in VirtualValues : RunVirtual(value)
    \/ \E content \in Contents \cup {Missing} : RunFile(content)
    \/ \E rule_error \in BOOLEAN : RunRecipeRaises(rule_error)

TermNext ==
    \/ Start
    \/ \E target \in {A, F} : Update(target, FALSE)
    \/ DriverStep
    \/ Exit

TermSpec == TermInit /\ [][TermNext]_vars /\ WF_vars(DriverStep)

\* How many canonical targets are reached from the requested target, itself
\* included.
TargetsReached == Cardinality({Canon(x) : x \in Reach({request.target})})

\* C33: an update that is under way leads to one that has returned a result
\* or has raised a BuildError; meanwhile no more activations of Rule.update
\* are open than there are canonical targets reached from the requested
\* one, and none was ever entered deeper than that plus one.
C33_UpdateTerminates ==
    /\ (proc = "updating")
          ~> \/ proc = "idle" /\ outcome.status = "ok"
             \/ proc = "failed" /\ outcome.status = "error"
    /\ [](request.op = "update"
            => /\ Len(stack) <= TargetsReached
               /\ \A i \in 1..Len(log) : log[i].depth <= TargetsReached + 1)

\* update(a) over the cycle a -> b -> a has raised the cycle error from the
\* third activation, one more than the two targets there are.
C33_Witness ==
    /\ request.op = "update"
    /\ request.target = A
    /\ proc = "failed"
    /\ CycleError
    /\ TargetsReached = 2
    /\ log[Len(log)].ev = "raise"
    /\ log[Len(log)].depth = 3

(***************************************************************************)
(* C34  State open terminates.                                             *)
(*                                                                         *)
(* An engine that is in the loop of State.__init__ goes on to its next     *)
(* statement: weak fairness of open, flock and the inode check, for each   *)
(* engine.  Nothing makes the holder of the lock save or end.              *)
(***************************************************************************)

\* One step of the loop of State.__init__ (registry.py 24-45).
LoopStep(e) == Open(e) \/ Flock(e) \/ Check(e)

LockFairSpec ==
    LockInit /\ [][LockNext]_vars /\ \A e \in Engines : WF_vars(LoopStep(e))

\* The engine is between the open and the end of the inode check.
InLoop(e) == engines[e].pc \in {"opened", "locked", "retry"}

\* C34: an engine in the loop leads to one that has left it, with the
\* PakeError of the held lock or with the lock of the file the path names
\* (or whose process has ended); and an engine goes round the loop again
\* only from the inode check, holding the lock of a file the path no longer
\* names.
C34_OpenTerminates ==
    /\ \A e \in Engines :
          InLoop(e) ~> \/ engines[e].pc = "locked_error"
                       \/ /\ engines[e].pc = "checked"
                          /\ engines[e].file = statepath
                          /\ Holds(e, statepath)
                       \/ engines[e].pc = "dead"
    /\ [][\A e \in Engines :
            (engines'[e].pc = "retry" /\ engines[e].pc # "retry")
                => /\ engines[e].pc = "locked"
                   /\ Holds(e, engines[e].file)
                   /\ engines[e].file # statepath]_vars

\* Engine 2 opened the file while engine 1 held its lock; engine 1 saved,
\* which renamed a new file into place and released the old one; engine 2
\* then locked the old file, failed the inode check and is going round.
C34_Witness ==
    /\ engines[1].pc = "ready"
    /\ engines[1].saves = 1
    /\ Holds(1, statepath)
    /\ engines[2].pc = "retry"

(***************************************************************************)
(* stack_colors (verbose_print.py 47-73)                                   *)
(*                                                                         *)
(* A text is a sequence of pieces: an SGR escape "\x1b[<code>m", which is  *)
(* what the regular expression finds, with its code, or a stretch of text  *)
(* that holds no escape.  The code of a reset escape is the empty string.  *)
(***************************************************************************)

Esc(code) == [esc |-> TRUE, text |-> code]
Plain(text) == [esc |-> FALSE, text |-> text]
ResetEsc == Esc("")

\* How many pieces a text has at most.
MaxPieces == 4

ColorPieces == {Plain("foo"), Esc("31"), Esc("1;34"), ResetEsc}

ColorTexts == UNION {[1..n -> ColorPieces] : n \in 0..MaxPieces}

\* The position of the first escape of a text: what re.search returns.
FirstEscape(input) ==
    CHOOSE k \in 1..Len(input) :
        input[k].esc /\ \A j \in 1..(k - 1) : ~input[j].esc

\* The loop of stack_colors: the text still to scan, the output so far and
\* the stack.  list.pop() of an empty list raises IndexError.
RECURSIVE stack_colors_loop(_, _, _)
stack_colors_loop(input, output, ctx) ==
    IF \A k \in 1..Len(input) : ~input[k].esc
    THEN [status |-> "ok", output |-> output \o input]
    ELSE LET k == FirstEscape(input)
             before == output \o SubSeq(input, 1, k - 1)
             rest == SubSeq(input, k + 1, Len(input))
             code == input[k].text
         IN  IF code = ""
             THEN IF ctx = <<>>
                  THEN [status |-> "IndexError", output |-> <<>>]
                  ELSE LET popped == SubSeq(ctx, 1, Len(ctx) - 1)
                           restored == IF popped # <<>> THEN popped[Len(popped)] ELSE ""
                       IN  stack_colors_loop(rest, Append(before, Esc(restored)), popped)
             ELSE stack_colors_loop(rest, Append(before, Esc(code)), Append(ctx, code))

stack_colors(input) == stack_colors_loop(input, <<>>, <<>>)

ColorInit ==
    /\ rules = RegistryInit
    /\ files = [p \in {DotF, DotG, DotP} |-> Missing]
    /\ disk = NoData
    /\ proc = "idle"
    /\ data = NoData
    /\ stack = <<>>
    /\ outcome = NoOutcome
    /\ log = <<>>
    /\ nonce = 0
    /\ updates = 0
    /\ touches = 0
    /\ request = NoRequest
    /\ lastOk = NoLast
    /\ NoHost
    /\ NoRegistered

\* A call stack_colors(input): request.target holds the input, the log the
\* text returned, outcome.status how the call ended.
StackColors(input) ==
    /\ request' = [NoRequest EXCEPT !.op = "stack_colors", !.target = input]
    /\ log' = stack_colors(input).output
    /\ outcome' = [NoOutcome EXCEPT !.status = stack_colors(input).status]
    /\ UNCHANGED <<lockvars, regvars, rules, files, disk, proc, data, stack, nonce,
                   updates, touches, lastOk>>

ColorNext == \E input \in ColorTexts : StackColors(input)

ColorSpec == ColorInit /\ [][ColorNext]_vars

(***************************************************************************)
(* C35  stack_colors keeps a colour context stack.                         *)
(***************************************************************************)

\* The colour contexts open after a text, innermost last: a colour escape
\* opens one, a reset closes the innermost if there is one.
RECURSIVE OpenContexts(_)
OpenContexts(text) ==
    IF text = <<>> THEN <<>>
    ELSE LET before == OpenContexts(SubSeq(text, 1, Len(text) - 1))
             last == text[Len(text)]
         IN  IF ~last.esc THEN before
             ELSE IF last.text # "" THEN Append(before, last.text)
             ELSE IF before = <<>> THEN <<>>
             ELSE SubSeq(before, 1, Len(before) - 1)

\* What the piece at position k of the input is to become: itself, or for
\* a reset the context below the innermost one, a plain reset if none.
Restacked(input, k) ==
    IF input[k] # ResetEsc THEN input[k]
    ELSE LET open == OpenContexts(SubSeq(input, 1, k - 1))
         IN  IF Len(open) >= 2 THEN Esc(open[Len(open) - 1]) ELSE ResetEsc

\* Every reset of the text closes a context that is open.
Balanced(input) ==
    \A k \in 1..Len(input) :
        input[k] = ResetEsc => OpenContexts(SubSeq(input, 1, k - 1)) # <<>>

\* C35: a call of stack_colors returns, for any text; the text returned has
\* the pieces of the input, text and colour escapes as they were, and each
\* reset replaced by the escape of the context below the one it closes, or
\* kept as a plain reset when there is none below or none open.
C35_ColourStack ==
    request.op = "stack_colors"
        => /\ outcome.status = "ok"
           /\ Len(log) = Len(request.target)
           /\ \A k \in 1..Len(log) : log[k] = Restacked(request.target, k)

\* What the code keeps of C35: the same, for the texts in which every reset
\* closes an open context.
ColourStackBalanced ==
    (request.op = "stack_colors" /\ Balanced(request.target))
        => /\ outcome.status = "ok"
           /\ Len(log) = Len(request.target)
           /\ \A k \in 1..Len(log) : log[k] = Restacked(request.target, k)

\* The other texts all end in IndexError.
ColourStackUnbalanced ==
    (request.op = "stack_colors" /\ ~Balanced(request.target))
        => outcome.status = "IndexError"

====
